---- MODULE Spec2Model ----
(***************************************************************************)
(* pdblp/parser.py: the pyparsing grammar of _parse, and to_dict_list and  *)
(* to_json on top of it.  pdblp/pdblp.py: bopen and BCon, with the         *)
(* blpapi.Session as the environment (the last sections).                  *)
(*                                                                         *)
(* A text is a sequence of one-character strings.  A parser element is an  *)
(* operator (s, loc) -> <<loc', tokens>>: loc is the index of the next     *)
(* character to read, loc' = 0 is pyparsing's ParseException, and tokens   *)
(* is the element's ParseResults.                                          *)
(*                                                                         *)
(* A ParseResults is <<"PR", toklist, tokdict>>: toklist the sequence of   *)
(* tokens, tokdict the named results in insertion order, each              *)
(* <<key, occurrences>> (the offsets pyparsing stores beside each          *)
(* occurrence are never read by asDict and are left out).  A token is a    *)
(* ParseResults, <<"str", chars>>, <<"int", n>>, <<"float", m, scale>>     *)
(* (the value m / 10^scale, trailing zeros dropped), or the Python dict    *)
(* {} that jobject's parse action returns, <<"map", <<>>>>.                *)
(*                                                                         *)
(* What to_dict_list returns is built of <<"map", items>> (a dict: the     *)
(* sequence of <<key, value>> in insertion order), <<"list", elems>> and   *)
(* the scalar tokens.                                                      *)
(***************************************************************************)
EXTENDS Integers, Sequences, FiniteSets, TLC

VARIABLES
    tree,     \* the message the input text was printed from
    layout,   \* how it was printed
    damage,   \* what was done to the printed text afterwards
    mystr,    \* the argument of the call
    pc,       \* "start", or the function that was called
    ret,      \* what the call returned or raised
    threads,  \* the threads that call to_dict_list, each with its position
    locals,   \* the local variables of the calls in progress
    session,  \* the blpapi.Session of a BCon
    bcon      \* the BCon method in progress and its outcome

parserVars == <<tree, layout, damage, mystr, pc, ret>>

callVars == <<threads, locals>>

bconVars == <<session, bcon>>

vars == <<tree, layout, damage, mystr, pc, ret, threads, locals, session, bcon>>

----------------------------------------------------------------------------
(* Characters *)

QUOTE == "\""
NL == "\n"
SP == " "

\* the whitespace skipped, were line breaks not part of it
Whitespace_blanks == {" ", "\t"}

\* pyparsing's default whitespace, skipped before every element
Whitespace == {" ", "\n", "\t", "\r"}

Digits == {"0", "1", "2", "3", "4", "5", "6", "7", "8", "9"}

DigitVal(c) ==
    CASE c = "0" -> 0 [] c = "1" -> 1 [] c = "2" -> 2 [] c = "3" -> 3
      [] c = "4" -> 4 [] c = "5" -> 5 [] c = "6" -> 6 [] c = "7" -> 7
      [] c = "8" -> 8 [] c = "9" -> 9

\* the printable characters that occur in the texts of this model, and ' '
PrintablesAndSpace ==
    {"a", "b", "c", "e", "E", "x", "y", "{", "}", "[", "]", "=", ",", ".",
     "-", "+", ":", QUOTE, SP} \cup Digits

\* pp.Word(pp.printables + ' ', excludeChars='[]=')
FieldChars == PrintablesAndSpace \ {"[", "]", "="}

----------------------------------------------------------------------------
(* ParseResults *)

Fail == <<0, <<>>>>

PR(toklist) == <<"PR", toklist, <<>>>>

IsPR(t) == t[1] = "PR"

toklistOf(pr) == pr[2]

tokdictOf(pr) == pr[3]

haskeys(pr) == tokdictOf(pr) /= <<>>

EmptyDict == <<"map", <<>>>>

KeyIndex(tokdict, k) ==
    IF \E i \in 1..Len(tokdict) : tokdict[i][1] = k
    THEN CHOOSE i \in 1..Len(tokdict) : tokdict[i][1] = k
    ELSE 0

\* ParseResults.__setitem__(k, _ParseResultsWithOffset(v, _)): one more
\* occurrence of k; a new key goes last
setitem(pr, k, v) ==
    LET td == tokdictOf(pr)
        i == KeyIndex(td, k)
    IN  <<"PR", toklistOf(pr),
          IF i = 0 THEN Append(td, <<k, <<v>>>>)
          ELSE [td EXCEPT ![i] = <<k, Append(td[i][2], v)>>]>>

\* getitem, were it to give the first occurrence of the name
getitem_first(pr, k) == tokdictOf(pr)[KeyIndex(tokdictOf(pr), k)][2][1]

\* ParseResults.__getitem__(k) for a name: the last occurrence
getitem(pr, k) ==
    LET occ == tokdictOf(pr)[KeyIndex(tokdictOf(pr), k)][2]
    IN  occ[Len(occ)]

RECURSIVE SetAll(_, _, _)
SetAll(pr, k, occ) ==
    IF occ = <<>> THEN pr ELSE SetAll(setitem(pr, k, Head(occ)), k, Tail(occ))

RECURSIVE MergeKeys(_, _)
MergeKeys(pr, tokdict) ==
    IF tokdict = <<>> THEN pr
    ELSE MergeKeys(SetAll(pr, Head(tokdict)[1], Head(tokdict)[2]), Tail(tokdict))

\* ParseResults.__iadd__
iadd(a, b) ==
    LET m == MergeKeys(a, tokdictOf(b))
    IN  <<"PR", toklistOf(m) \o toklistOf(b), tokdictOf(m)>>

\* And.parseImpl: "if exprtokens or exprtokens.haskeys(): resultlist += exprtokens"
AndAdd(a, b) == IF toklistOf(b) /= <<>> \/ haskeys(b) THEN iadd(a, b) ELSE a

\* Group.postParse
Group(pr) == PR(<<pr>>)

\* dictvalue = tok.copy(); del dictvalue[0]
DelFirst(pr) == <<"PR", Tail(toklistOf(pr)), tokdictOf(pr)>>

\* Dict.postParse: one key per token of the list, from the token's own tokens
DictEntry(tokenlist, tok) ==
    LET tl == toklistOf(tok)
        ikey == tl[1][2]
        dictvalue == DelFirst(tok)
    IN  IF Len(tl) = 0 THEN tokenlist
        ELSE IF Len(tl) = 1 THEN setitem(tokenlist, ikey, <<"str", <<>>>>)
        ELSE IF Len(tl) = 2 /\ ~IsPR(tl[2]) THEN setitem(tokenlist, ikey, tl[2])
        ELSE IF Len(toklistOf(dictvalue)) /= 1 \/ haskeys(dictvalue)
             THEN setitem(tokenlist, ikey, dictvalue)
        ELSE setitem(tokenlist, ikey, toklistOf(dictvalue)[1])

RECURSIVE DictFrom(_, _)
DictFrom(tokenlist, i) ==
    IF i > Len(toklistOf(tokenlist)) THEN tokenlist
    ELSE DictFrom(DictEntry(tokenlist, toklistOf(tokenlist)[i]), i + 1)

Dict(pr) == DictFrom(pr, 1)

----------------------------------------------------------------------------
(* Terminals *)

\* ParserElement.preParse: skip leading whitespace
RECURSIVE preParse(_, _)
preParse(s, loc) ==
    IF loc <= Len(s) /\ s[loc] \in Whitespace THEN preParse(s, loc + 1) ELSE loc

CharAt(s, i) == IF i >= 1 /\ i <= Len(s) THEN s[i] ELSE "EOF"

\* pp.Suppress(c) for a one-character literal: the location after it, or 0
Literal(s, loc, c) ==
    LET p == preParse(s, loc)
    IN  IF loc /= 0 /\ CharAt(s, p) = c THEN p + 1 ELSE 0

LBRACE(s, loc) == Literal(s, loc, "{")

RBRACE(s, loc) == Literal(s, loc, "}")

EQUAL(s, loc) == Literal(s, loc, "=")

\* list_marker = pp.Suppress("[]")
list_marker(s, loc) ==
    LET p == preParse(s, loc)
    IN  IF loc /= 0 /\ CharAt(s, p) = "[" /\ CharAt(s, p + 1) = "]" THEN p + 2 ELSE 0

RECURSIVE WordEnd(_, _)
WordEnd(s, i) ==
    IF i <= Len(s) /\ s[i] \in FieldChars THEN WordEnd(s, i + 1) ELSE i

\* the field without its parse action: nothing removed
rstrip_off(w) == w

\* str.rstrip
RECURSIVE rstrip(_)
rstrip(w) ==
    IF w /= <<>> /\ w[Len(w)] \in Whitespace
    THEN rstrip(SubSeq(w, 1, Len(w) - 1))
    ELSE w

\* field = pp.Word(pp.printables + ' ', excludeChars='[]='), then rstrip
field(s, loc) ==
    LET p == preParse(s, loc)
        e == WordEnd(s, p)
    IN  IF e = p THEN Fail
        ELSE <<e, PR(<< <<"str", rstrip(SubSeq(s, p, e - 1))>> >>)>>

\* the body of pyparsing's double-quoted string, "(?:[^"\n\r\\]|(?:"")|...)*:
\* the index after the longest run of plain characters and "" pairs (the
\* alphabet has no backslash, so the escape alternative never applies)
RECURSIVE QuotedBodyEnd(_, _)
QuotedBodyEnd(s, i) ==
    IF i > Len(s) THEN i
    ELSE IF s[i] \notin {QUOTE, "\n", "\r"} THEN QuotedBodyEnd(s, i + 1)
    ELSE IF s[i] = QUOTE /\ CharAt(s, i + 1) = QUOTE THEN QuotedBodyEnd(s, i + 2)
    ELSE i

\* the quoted string, were its content stripped like a field name
string_rstrip(s, loc) ==
    LET p == preParse(s, loc)
        e == QuotedBodyEnd(s, p + 1)
    IN  IF CharAt(s, p) = QUOTE /\ CharAt(s, e) = QUOTE
        THEN <<e + 1, PR(<< <<"str", rstrip(SubSeq(s, p + 1, e - 1))>> >>)>>
        ELSE Fail

\* string = pp.dblQuotedString().setParseAction(pp.removeQuotes)
string(s, loc) ==
    LET p == preParse(s, loc)
        e == QuotedBodyEnd(s, p + 1)
    IN  IF CharAt(s, p) = QUOTE /\ CharAt(s, e) = QUOTE
        THEN <<e + 1, PR(<< <<"str", SubSeq(s, p + 1, e - 1)>> >>)>>
        ELSE Fail

IsDigit(s, i) == CharAt(s, i) \in Digits

\* date_expr = pp.Regex(r'\d\d\d\d-\d\d-\d\d')
date_expr(s, loc) ==
    LET p == preParse(s, loc)
    IN  IF /\ \A k \in {0, 1, 2, 3, 5, 6, 8, 9} : IsDigit(s, p + k)
           /\ CharAt(s, p + 4) = "-" /\ CharAt(s, p + 7) = "-"
        THEN <<p + 10, PR(<< <<"str", SubSeq(s, p, p + 9)>> >>)>>
        ELSE Fail

\* time_expr = pp.Regex(r'\d\d:\d\d:\d\d\.\d\d\d')
time_expr(s, loc) ==
    LET p == preParse(s, loc)
    IN  IF /\ \A k \in {0, 1, 3, 4, 6, 7, 9, 10, 11} : IsDigit(s, p + k)
           /\ CharAt(s, p + 2) = ":" /\ CharAt(s, p + 5) = ":"
           /\ CharAt(s, p + 8) = "."
        THEN <<p + 12, PR(<< <<"str", SubSeq(s, p, p + 11)>> >>)>>
        ELSE Fail

RECURSIVE DigitsEnd(_, _)
DigitsEnd(s, i) == IF IsDigit(s, i) THEN DigitsEnd(s, i + 1) ELSE i

\* int() of a run of digits
RECURSIVE ToNat(_)
ToNat(ds) ==
    IF ds = <<>> THEN 0
    ELSE 10 * ToNat(SubSeq(ds, 1, Len(ds) - 1)) + DigitVal(ds[Len(ds)])

\* float() of mantissa * 10^(-scale), as the pair without trailing zeros
RECURSIVE Canon(_, _)
Canon(m, scale) ==
    IF scale < 0 THEN Canon(m * 10, scale + 1)
    ELSE IF scale > 0 /\ m % 10 = 0 THEN Canon(m \div 10, scale - 1)
    ELSE <<"float", m, scale>>

\* the exponent [eE][+-]?\d+ at i: the index after it and its value, or
\* <<i, 0>> when there is none
ExpValue(s, i, q, e) ==
    IF CharAt(s, i) \in {"e", "E"} /\ e > q
    THEN <<e, (IF CharAt(s, i + 1) = "-" THEN -1 ELSE 1) * ToNat(SubSeq(s, q, e - 1))>>
    ELSE <<i, 0>>

ExpDigits(s, i, q) == ExpValue(s, i, q, DigitsEnd(s, q))

ExpAt(s, i) == ExpDigits(s, i, IF CharAt(s, i + 1) \in {"+", "-"} THEN i + 2 ELSE i + 1)

\* the literal at p: its sign, its digits from q to e, its fraction up to f
\* and its exponent x
Sign(s, p) == IF CharAt(s, p) = "-" THEN -1 ELSE 1

Mantissa(s, p, q, e, f) == Sign(s, p) * ToNat(SubSeq(s, q, e - 1) \o SubSeq(s, e + 1, f - 1))

FloatOf(s, p, q, e, f, x) ==
    <<x[1], PR(<<Canon(Mantissa(s, p, q, e, f), (IF f > e THEN f - e - 1 ELSE 0) - x[2])>>)>>

\* pp.pyparsing_common.fnumber in the place of number: every literal
\* converted with float()
FNumberExp(s, p, q, e, f, x) == IF e = q THEN Fail ELSE FloatOf(s, p, q, e, f, x)

FNumberFrac(s, p, q, e, f) == FNumberExp(s, p, q, e, f, ExpAt(s, f))

FNumberDigits(s, p, q, e) ==
    FNumberFrac(s, p, q, e, IF CharAt(s, e) = "." THEN DigitsEnd(s, e + 1) ELSE e)

FNumberFrom(s, p, q) == FNumberDigits(s, p, q, DigitsEnd(s, q))

FNumberAt(s, p) == FNumberFrom(s, p, IF CharAt(s, p) \in {"+", "-"} THEN p + 1 ELSE p)

number_fnumber(s, loc) == FNumberAt(s, preParse(s, loc))

\* number = pp.pyparsing_common.number(): sci_real | real | signed_integer.
\* [+-]?\d+([eE][+-]?\d+|\.\d*([eE][+-]?\d+)?) and [+-]?\d+\.\d* convert
\* with float(), [+-]?\d+ with int()
NumberExp(s, p, q, e, f, x) ==
    IF e = q THEN Fail
    ELSE IF CharAt(s, e) = "." \/ x[1] > f THEN FloatOf(s, p, q, e, f, x)
    ELSE <<e, PR(<< <<"int", Sign(s, p) * ToNat(SubSeq(s, q, e - 1))>> >>)>>

NumberFrac(s, p, q, e, f) == NumberExp(s, p, q, e, f, ExpAt(s, f))

NumberDigits(s, p, q, e) ==
    NumberFrac(s, p, q, e, IF CharAt(s, e) = "." THEN DigitsEnd(s, e + 1) ELSE e)

NumberFrom(s, p, q) == NumberDigits(s, p, q, DigitsEnd(s, q))

NumberAt(s, p) == NumberFrom(s, p, IF CharAt(s, p) \in {"+", "-"} THEN p + 1 ELSE p)

number(s, loc) == NumberAt(s, preParse(s, loc))

\* (string | number | date_expr | time_expr): the number tried before the
\* date and the time
scalar_value_number_first(s, loc) ==
    LET r1 == string(s, loc)
        r2 == number(s, loc)
        r3 == date_expr(s, loc)
    IN  IF r1[1] /= 0 THEN r1
        ELSE IF r2[1] /= 0 THEN r2
        ELSE IF r3[1] /= 0 THEN r3
        ELSE time_expr(s, loc)

\* scalar_value = (string | date_expr | time_expr | number)
scalar_value(s, loc) ==
    LET r1 == string(s, loc)
        r2 == date_expr(s, loc)
        r3 == time_expr(s, loc)
    IN  IF r1[1] /= 0 THEN r1
        ELSE IF r2[1] /= 0 THEN r2
        ELSE IF r3[1] /= 0 THEN r3
        ELSE number(s, loc)

----------------------------------------------------------------------------
(* The grammar of _parse *)
(*                                                                         *)
(* An And (e1 + e2 + ...) is written as a chain of operators, each handed  *)
(* the result of the element before it; a location of 0 is the failure of  *)
(* an earlier element and is passed on.                                    *)

RECURSIVE jobject(_, _)
RECURSIVE memberDef(_, _)
RECURSIVE ZeroOrMoreMemberDef(_, _, _)
RECURSIVE ZeroOrMoreGroups(_, _, _)
RECURSIVE value_list(_, _)

\* pp.Group(field + ... + value): the group of the field's and the value's tokens
GroupOf(f, v, end) == IF end = 0 THEN Fail ELSE <<end, Group(AndAdd(f[2], v[2]))>>

ScalarAt(s, loc) == IF loc = 0 THEN Fail ELSE scalar_value(s, loc)

Member1From(s, f, v) == GroupOf(f, v, v[1])

\* memberDef1 = pp.Group(field + EQUAL + scalar_value)
memberDef1From(s, f) == Member1From(s, f, ScalarAt(s, EQUAL(s, f[1])))

memberDef1(s, loc) == memberDef1From(s, field(s, loc))

JObjectAt(s, loc) == IF loc = 0 THEN Fail ELSE jobject(s, loc)

\* memberDef2 = pp.Group(field + EQUAL + jobject)
memberDef2From(s, f) == Member1From(s, f, JObjectAt(s, EQUAL(s, f[1])))

memberDef2(s, loc) == memberDef2From(s, field(s, loc))

ValueListAt(s, loc) == IF loc = 0 THEN Fail ELSE value_list(s, loc)

Member3Close(s, f, v) == GroupOf(f, v, RBRACE(s, v[1]))

\* memberDef3 = pp.Group(field + list_marker + EQUAL + LBRACE + value_list +
\*                       RBRACE)
memberDef3From(s, f) ==
    Member3Close(s, f, ValueListAt(s, LBRACE(s, EQUAL(s, list_marker(s, f[1])))))

memberDef3(s, loc) == memberDef3From(s, field(s, loc))

\* MatchFirst: the first alternative that matches
MatchFirst2(r1, r2) == IF r1[1] /= 0 THEN r1 ELSE r2

MatchFirst3(r1, r2, r3) == IF r1[1] /= 0 THEN r1 ELSE IF r2[1] /= 0 THEN r2 ELSE r3

\* memberDef = memberDef1 | memberDef2 | memberDef3
memberDef(s, loc) ==
    MatchFirst3(memberDef1(s, loc), memberDef2(s, loc), memberDef3(s, loc))

\* one round of pp.ZeroOrMore(memberDef): it stops, without failing, where
\* memberDef fails
MemberDefStep(s, loc, tokens, r) ==
    IF r[1] = 0 THEN <<loc, tokens>>
    ELSE ZeroOrMoreMemberDef(s, r[1], AndAdd(tokens, r[2]))

ZeroOrMoreMemberDef(s, loc, tokens) == MemberDefStep(s, loc, tokens, memberDef(s, loc))

\* jobject without its parse action
EmptyToDict_off(t) == t

\* jobject.setParseAction(lambda t: t or {})
EmptyToDict(t) == IF toklistOf(t) /= <<>> THEN t ELSE PR(<<EmptyDict>>)

JObjectResult(end, t) == IF end = 0 THEN Fail ELSE <<end, EmptyToDict(t)>>

JObjectClose(s, ms) == JObjectResult(RBRACE(s, ms[1]), Dict(ms[2]))

JObjectMembers(s, l) ==
    IF l = 0 THEN Fail ELSE JObjectClose(s, ZeroOrMoreMemberDef(s, l, PR(<<>>)))

\* jobject <<= pp.Dict(LBRACE + pp.ZeroOrMore(memberDef) + RBRACE)
jobject(s, loc) == JObjectMembers(s, LBRACE(s, loc))

\* the tail of pp.delimitedList: pp.ZeroOrMore(pp.Suppress(",") + scalar_value)
RECURSIVE ZeroOrMoreDelimited(_, _, _)
\* the tail of delimitedList, were it to skip a value it already holds
DelimitedStep_set(s, loc, tokens, v) ==
    IF v[1] = 0 THEN <<loc, tokens>>
    ELSE ZeroOrMoreDelimited(s, v[1],
             IF \E i \in 1..Len(toklistOf(tokens)) : toklistOf(tokens)[i] = toklistOf(v[2])[1]
             THEN tokens ELSE AndAdd(tokens, v[2]))

DelimitedStep(s, loc, tokens, v) ==
    IF v[1] = 0 THEN <<loc, tokens>>
    ELSE ZeroOrMoreDelimited(s, v[1], AndAdd(tokens, v[2]))

ZeroOrMoreDelimited(s, loc, tokens) ==
    DelimitedStep(s, loc, tokens, ScalarAt(s, Literal(s, loc, ",")))

DelimitedFrom(s, v) == IF v[1] = 0 THEN Fail ELSE ZeroOrMoreDelimited(s, v[1], v[2])

\* pp.delimitedList(scalar_value, ",")
delimitedList(s, loc) == DelimitedFrom(s, scalar_value(s, loc))

\* pp.ZeroOrMore(pp.Dict(memberDef2)): the elements without their Group
GroupStep_flat(s, loc, tokens, r) ==
    IF r[1] = 0 THEN <<loc, tokens>>
    ELSE ZeroOrMoreGroups(s, r[1], AndAdd(tokens, Dict(r[2])))

GroupStep(s, loc, tokens, r) ==
    IF r[1] = 0 THEN <<loc, tokens>>
    ELSE ZeroOrMoreGroups(s, r[1], AndAdd(tokens, Group(Dict(r[2]))))

\* pp.ZeroOrMore(pp.Group(pp.Dict(memberDef2)))
ZeroOrMoreGroups(s, loc, tokens) == GroupStep(s, loc, tokens, memberDef2(s, loc))

\* value_list without its parse action
ValueListAction_off(r) == r

\* value_list.setParseAction(lambda t: [pp.ParseResults(t[:])])
ValueListAction(r) == <<r[1], PR(<<PR(toklistOf(r[2]))>>)>>

\* value_list <<= (pp.delimitedList(scalar_value, ",") |
\*                 pp.ZeroOrMore(pp.Group(pp.Dict(memberDef2))))
value_list(s, loc) ==
    ValueListAction(MatchFirst2(delimitedList(s, loc),
                                ZeroOrMoreGroups(s, loc, PR(<<>>))))

\* the tail of pp.OneOrMore(pp.Group(pp.Dict(memberDef)))
RECURSIVE MoreRecords(_, _, _)
RecordStep(s, loc, tokens, r) ==
    IF r[1] = 0 THEN <<loc, tokens>>
    ELSE MoreRecords(s, r[1], AndAdd(tokens, Group(Dict(r[2]))))

MoreRecords(s, loc, tokens) == RecordStep(s, loc, tokens, memberDef(s, loc))

FirstRecord(s, r) == IF r[1] = 0 THEN Fail ELSE MoreRecords(s, r[1], Group(Dict(r[2])))

FirstMember(s, r) == IF r[1] = 0 THEN Fail ELSE ZeroOrMoreMemberDef(s, r[1], r[2])

\* parser = members, the pp.OneOrMore(memberDef) of line 44
parser_members(s, loc) == FirstMember(s, memberDef(s, loc))

\* parser = pp.OneOrMore(pp.Group(pp.Dict(memberDef)))
parser(s, loc) == FirstRecord(s, memberDef(s, loc))

\* _parse: parser.parseString(mystr); parseAll is not passed, so the text
\* after the last match is not looked at
ParseException == <<"raise", "ParseException">>

Raised(r) == r[1] = "raise"

Returned(r) == r[1] = "return"

_parse(s) ==
    LET r == parser(s, 1)
    IN  IF r[1] = 0 THEN ParseException ELSE <<"return", r[2]>>

----------------------------------------------------------------------------
(* to_dict_list and to_json *)

RECURSIVE asDict(_)
RECURSIVE toItem(_)

\* ParseResults.asDict: dict((k, toItem(v)) for k, v in self.items())
asDict(pr) ==
    <<"map", [i \in 1..Len(tokdictOf(pr)) |->
                <<tokdictOf(pr)[i][1], toItem(getitem(pr, tokdictOf(pr)[i][1]))>>]>>

toItem(obj) ==
    IF IsPR(obj)
    THEN IF haskeys(obj) THEN asDict(obj)
         ELSE <<"list", [i \in 1..Len(toklistOf(obj)) |-> toItem(toklistOf(obj)[i])]>>
    ELSE obj

to_dict_list(s) ==
    LET res == _parse(s)
    IN  IF Raised(res) THEN res
        ELSE <<"return",
               <<"list", [i \in 1..Len(toklistOf(res[2])) |->
                            asDict(toklistOf(res[2])[i])]>>>>

\* Python's None
None == <<"None">>

\* str(n) for n >= 0
RECURSIVE NatChars(_)
NatChars(n) ==
    LET d == <<"0", "1", "2", "3", "4", "5", "6", "7", "8", "9">>[(n % 10) + 1]
    IN  IF n < 10 THEN <<d>> ELSE Append(NatChars(n \div 10), d)

IntChars(n) == IF n < 0 THEN <<"-">> \o NatChars(-n) ELSE NatChars(n)

RECURSIVE ZeroPad(_, _)
ZeroPad(ds, n) == IF Len(ds) >= n THEN ds ELSE ZeroPad(<<"0">> \o ds, n)

\* repr of the float m / 10^scale, in the range where repr has no exponent
FloatChars(m, scale) ==
    LET ds == ZeroPad(NatChars(IF m < 0 THEN -m ELSE m), scale + 1)
        k == Len(ds) - scale
    IN  (IF m < 0 THEN <<"-">> ELSE <<>>) \o SubSeq(ds, 1, k) \o <<".">>
        \o (IF scale = 0 THEN <<"0">> ELSE SubSeq(ds, k + 1, Len(ds)))

\* json's string escapes, for the characters of the alphabet
RECURSIVE JsonEscape(_)
JsonEscape(cs) ==
    IF cs = <<>> THEN <<>>
    ELSE (IF Head(cs) = QUOTE THEN <<"\\", QUOTE>> ELSE <<Head(cs)>>)
         \o JsonEscape(Tail(cs))

JsonString(cs) == <<QUOTE>> \o JsonEscape(cs) \o <<QUOTE>>

\* the indentation of nesting level n under indent=2
RECURSIVE JsonIndent(_)
JsonIndent(n) == IF n = 0 THEN <<>> ELSE <<SP, SP>> \o JsonIndent(n - 1)

RECURSIVE json_dumps(_, _)
RECURSIVE JsonItems(_, _, _, _)

\* the items of a list (isMap = FALSE) or dict from the i-th on, one per
\* line, separated by ","
JsonItems(items, i, isMap, level) ==
    IF i > Len(items) THEN <<>>
    ELSE <<NL>> \o JsonIndent(level)
         \o (IF isMap
             THEN JsonString(items[i][1]) \o <<":", SP>>
                  \o json_dumps(items[i][2], level)
             ELSE json_dumps(items[i], level))
         \o (IF i < Len(items) THEN <<",">> ELSE <<>>)
         \o JsonItems(items, i + 1, isMap, level)

\* json.dumps(v, indent=2), at nesting level `level`
json_dumps(v, level) ==
    CASE v[1] = "str" -> JsonString(v[2])
      [] v[1] = "int" -> IntChars(v[2])
      [] v[1] = "float" -> FloatChars(v[2], v[3])
      [] v[1] = "list" ->
            IF Len(v[2]) = 0 THEN <<"[", "]">>
            ELSE <<"[">> \o JsonItems(v[2], 1, FALSE, level + 1)
                 \o <<NL>> \o JsonIndent(level) \o <<"]">>
      [] v[1] = "map" ->
            IF Len(v[2]) = 0 THEN <<"{", "}">>
            ELSE <<"{">> \o JsonItems(v[2], 1, TRUE, level + 1)
                 \o <<NL>> \o JsonIndent(level) \o <<"}">>

\* to_json: the dumps call's value is dropped, and the function ends
\* without a return statement
to_json(s) ==
    LET dicts == to_dict_list(s)
        text == json_dumps(dicts[2], 0)
    IN  IF Raised(dicts) THEN dicts
        ELSE IF text = <<>> THEN <<"return", None>>
        ELSE <<"return", None>>

----------------------------------------------------------------------------
(* The input texts: messages, printed, and then possibly damaged.          *)
(*                                                                         *)
(* A message is a sequence of members; a member is                         *)
(*   <<"scalar", name, <<lexeme, value>>>>   name = lexeme                 *)
(*   <<"object", name, members>>             name = { members }            *)
(*   <<"flat", name, scalars>>               name[] = { s1, s2 }           *)
(*   <<"group", name, objects>>              name[] = { n1 = {..} n2 = {..} } *)

MaxWidth == 2      \* members of a body, elements of a list
MaxRecords == 2    \* top-level records of a text

Names == {<<"a">>, <<"b">>}

\* a scalar as printed, and the value it stands for
Scalars == {<<<<"1">>, <<"int", 1>>>>, <<<<QUOTE, "x", QUOTE>>, <<"str", <<"x">>>>>>}

SeqsUpTo(S, n) == UNION {[1..k -> S] : k \in 0..n}

SeqsFrom(S, lo, hi) == UNION {[1..k -> S] : k \in lo..hi}

ScalarMembers == {<<"scalar", n, sc>> : n \in Names, sc \in Scalars}

\* the bodies of the innermost objects: at most one scalar field
InnerBodies == SeqsUpTo({<<"scalar", <<"a">>, sc>> : sc \in Scalars}, 1)

InnerObjects == {<<"object", n, b>> : n \in Names, b \in InnerBodies}

FlatLists == {<<"flat", <<"b">>, items>> : items \in SeqsUpTo(Scalars, MaxWidth)}

GroupLists == {<<"group", <<"b">>, elems>> : elems \in SeqsFrom(InnerObjects, 1, MaxWidth)}

\* the members a record's body is made of when it holds several
SimpleMembers ==
    ScalarMembers
    \cup {<<"object", n, <<>>>> : n \in Names}
    \cup {<<"flat", <<"b">>, <<>>>>, <<"object", <<"b">>, <<<<"scalar", <<"a">>, <<<<"1">>, <<"int", 1>>>>>>>>>>}

\* one record holding several simple members, one record holding one
\* member of any kind, and several small records
Messages ==
    {<<<<"object", <<"a">>, b>>>> : b \in SeqsUpTo(SimpleMembers, MaxWidth)}
    \cup {<<<<"object", <<"a">>, <<m>>>>>> : m \in InnerObjects \cup FlatLists \cup GroupLists}
    \cup SeqsFrom({<<"object", n, b>> : n \in Names, b \in InnerBodies}
                  \cup {<<"scalar", <<"a">>, sc>> : sc \in Scalars}
                  \cup {<<"flat", <<"b">>, <<>>>>},
                  2, MaxRecords)

\* [+-]?digits, and the int each stands for
IntLiterals ==
    {<<<<"0">>, <<"int", 0>>>>,
     <<<<"7">>, <<"int", 7>>>>,
     <<<<"1", "2">>, <<"int", 12>>>>,
     <<<<"-", "3">>, <<"int", -3>>>>,
     <<<<"+", "4">>, <<"int", 4>>>>,
     <<<<"0", "0", "7">>, <<"int", 7>>>>,
     <<<<"2", "0", "1", "5", "0", "6", "3", "0">>, <<"int", 20150630>>>>}

\* literals with a decimal point or an exponent, and the float each stands
\* for: <<"float", m, k>> is m / 10^k
FloatLiterals ==
    {<<<<"1", ".", "5">>, <<"float", 15, 1>>>>,
     <<<<"2", "0", "5", ".", "4", "2", "0", "0", "0", "0">>, <<"float", 20542, 2>>>>,
     <<<<"1", ".">>, <<"float", 1, 0>>>>,
     <<<<"-", "0", ".", "5">>, <<"float", -5, 1>>>>,
     <<<<"0", ".", "0">>, <<"float", 0, 0>>>>,
     <<<<"1", "e", "2">>, <<"float", 100, 0>>>>,
     <<<<"1", "E", "-", "2">>, <<"float", 1, 2>>>>,
     <<<<"1", ".", "5", "e", "1">>, <<"float", 15, 0>>>>,
     <<<<"+", "2", ".", "5", "0", "E", "+", "1">>, <<"float", 25, 0>>>>,
     <<<<"1", ".", "e", "1">>, <<"float", 10, 0>>>>,
     <<<<"-", "1", "2", "e", "-", "1">>, <<"float", -12, 1>>>>}

\* YYYY-MM-DD
DateLiterals ==
    {<<<<"2", "0", "1", "5", "-", "0", "6", "-", "2", "9">>, <<"str", <<"2", "0", "1", "5", "-", "0", "6", "-", "2", "9">>>>>>,
     <<<<"0", "0", "0", "0", "-", "0", "0", "-", "0", "0">>, <<"str", <<"0", "0", "0", "0", "-", "0", "0", "-", "0", "0">>>>>>}

\* HH:MM:SS.mmm
TimeLiterals ==
    {<<<<"1", "2", ":", "3", "4", ":", "5", "6", ".", "7", "8", "9">>, <<"str", <<"1", "2", ":", "3", "4", ":", "5", "6", ".", "7", "8", "9">>>>>>,
     <<<<"0", "0", ":", "0", "0", ":", "0", "0", ".", "0", "0", "0">>, <<"str", <<"0", "0", ":", "0", "0", ":", "0", "0", ".", "0", "0", "0">>>>>>}

\* double-quoted values
StringLiterals ==
    {<<<<QUOTE, "2", "0", "1", "5", "0", "6", "3", "0", QUOTE>>, <<"str", <<"2", "0", "1", "5", "0", "6", "3", "0">>>>>>,
     <<<<QUOTE, "1", "8", ":", "3", "3", ":", "4", "7", QUOTE>>, <<"str", <<"1", "8", ":", "3", "3", ":", "4", "7">>>>>>,
     <<<<QUOTE, "1", ".", "5", QUOTE>>, <<"str", <<"1", ".", "5">>>>>>,
     <<<<QUOTE, "2", "0", "1", "5", "-", "0", "6", "-", "2", "9", QUOTE>>, <<"str", <<"2", "0", "1", "5", "-", "0", "6", "-", "2", "9">>>>>>,
     <<<<QUOTE, "1", "2", ":", "3", "4", ":", "5", "6", ".", "7", "8", "9", QUOTE>>, <<"str", <<"1", "2", ":", "3", "4", ":", "5", "6", ".", "7", "8", "9">>>>>>,
     <<<<QUOTE, "a", SP, "=", SP, "b", QUOTE>>, <<"str", <<"a", SP, "=", SP, "b">>>>>>,
     <<<<QUOTE, "[", "x", "]", QUOTE>>, <<"str", <<"[", "x", "]">>>>>>,
     <<<<QUOTE, "{", SP, "}", QUOTE>>, <<"str", <<"{", SP, "}">>>>>>,
     <<<<QUOTE, "a", SP, "=", SP, "{", QUOTE>>, <<"str", <<"a", SP, "=", SP, "{">>>>>>,
     <<<<QUOTE, "x", SP, SP, QUOTE>>, <<"str", <<"x", SP, SP>>>>>>,
     <<<<QUOTE, SP, "x", QUOTE>>, <<"str", <<SP, "x">>>>>>,
     <<<<QUOTE, QUOTE>>, <<"str", <<>>>>>>,
     <<<<QUOTE, "a", ",", SP, "b", QUOTE>>, <<"str", <<"a", ",", SP, "b">>>>>>}

Unterminated == <<"bad", "unterminated">>

Unparsable == <<"bad", "unparsable">>

\* a quote that no quote closes on its line
UnterminatedStrings ==
    {<<<<QUOTE, "a", "b", "c">>, Unterminated>>,
     <<<<QUOTE>>, Unterminated>>,
     <<<<QUOTE, "a", SP, "=", SP, "1">>, Unterminated>>}

\* values that are no string, date, time or number, and literals with
\* trailing characters
UnparsableValues ==
    {<<<<"a", "b", "c">>, Unparsable>>,
     <<<<"1", "2", "a", "b", "c">>, Unparsable>>,
     <<<<"2", "0", "1", "5", "-", "0", "6", "-", "2", "9", "x", "1", "0", ":", "0", "0", ":", "0", "0">>, Unparsable>>,
     <<<<"2", "0", "1", "5", "-", "0", "6", "-", "2", "9", "x">>, Unparsable>>,
     <<<<"1", "2", ":", "3", "4", ":", "5", "6">>, Unparsable>>,
     <<<<"1", "e">>, Unparsable>>,
     <<<<"1", ".", "5", "x">>, Unparsable>>,
     <<<<"2", "0", "1", "5", "-", "0", "6">>, Unparsable>>,
     <<<<"-">>, Unparsable>>,
     <<<<"x", "1">>, Unparsable>>}

NumberLiterals == IntLiterals \cup FloatLiterals

ValueLiterals == NumberLiterals \cup DateLiterals \cup TimeLiterals \cup StringLiterals

BadLiterals == UnterminatedStrings \cup UnparsableValues

\* field names, some with embedded spaces
FieldNames == {<<"a">>, <<"a", SP, "b">>, <<"x", SP, SP, "y", ".", "c">>}

\* what stands where "= value" should: nothing, a value, a body
MissingEqual ==
    {<<"noeq", n, <<lex, <<"bad", "noeq">>>>>> :
        n \in {<<"a">>, <<"a", SP, "b">>},
        lex \in {<<>>, <<"1">>, <<QUOTE, "x", QUOTE>>, <<"{", NL, "}">>}}

Item(sc) == <<"item", <<>>, sc>>

ItemComma(sc) == <<"item,", <<>>, sc>>

\* [] bodies that are neither a list of scalars nor a list of name = { }
\* members
BadListBodies ==
    LET obj == <<"object", <<"a">>, <<>>>>
        one == <<<<"1">>, <<"int", 1>>>>
        str == <<<<QUOTE, "x", QUOTE>>, <<"str", <<"x">>>>>>
    IN  {<<<<"scalar", <<"a">>, sc>>>> : sc \in {one, str}}
        \cup {<<Item(sc), obj>> : sc \in {one, str}}
        \cup {<<ItemComma(sc), obj>> : sc \in {one, str}}
        \cup {<<obj, Item(sc)>> : sc \in {one, str}}
        \cup {<<obj, <<"scalar", <<"a">>, one>>>>, <<<<"scalar", <<"a">>, one>>, obj>>,
              <<ItemComma(one), Item(str), obj>>}

BadLists == {<<"badlist", <<"b">>, body>> : body \in BadListBodies}

\* the members the texts of the second specification are built around
ValueMembers ==
    {<<"scalar", n, sc>> : n \in FieldNames, sc \in ValueLiterals \cup BadLiterals}
    \cup MissingEqual
    \cup {<<"flat", n, <<sc>>>> : n \in {<<"a", SP, "b">>}, sc \in ValueLiterals \cup BadLiterals}
    \cup {<<"flat", <<"b">>, <<s1, s2>>>> :
             s1 \in {<<<<"1">>, <<"int", 1>>>>, <<<<QUOTE, "a", ",", SP, "b", QUOTE>>, <<"str", <<"a", ",", SP, "b">>>>>>},
             s2 \in DateLiterals \cup FloatLiterals}
    \cup {<<"group", n, <<<<"object", n, <<>>>>>>>> : n \in FieldNames}
    \cup BadLists

\* a member alone in the first record, before another member, at top level,
\* and in a record that follows a complete one
ValueMessages ==
    {<<<<"object", <<"a">>, <<m>>>>>> : m \in ValueMembers}
    \cup {<<<<"object", <<"a">>, <<m, <<"scalar", <<"b">>, <<<<"1">>, <<"int", 1>>>>>>>>>>>> :
             m \in ValueMembers}
    \cup {<<m>> : m \in {v \in ValueMembers : v[1] \in {"scalar", "noeq"}}}
    \cup {<<<<"object", <<"a">>, <<>>>>, <<"object", <<"b">>, <<m>>>>>> : m \in ValueMembers}

\* one member per line, with ' = ', '=' or '  =  ' between name and value
ValueLayouts == {"lines", "tight", "padded"}

Layouts == {"lines", "blank", "oneline"}

LineLayouts == {"lines", "blank"}

RECURSIVE Indent(_)
Indent(d) == IF d = 0 THEN <<>> ELSE <<SP>> \o Indent(d - 1)

\* the start of a member's line, and the end of a line
Lead(lay, d) == IF lay = "oneline" THEN <<>> ELSE Indent(d)

Eol(lay) == IF lay = "oneline" THEN <<SP>> ELSE <<NL>>

\* what stands between a name and its value
Assign(lay) ==
    CASE lay = "tight" -> <<"=">>
      [] lay = "padded" -> <<SP, SP, "=", SP, SP>>
      [] OTHER -> <<SP, "=", SP>>

RECURSIVE PrintScalars(_, _)
PrintScalars(items, i) ==
    IF i > Len(items) THEN <<>>
    ELSE items[i][1] \o (IF i < Len(items) THEN <<",", SP>> ELSE <<>>)
         \o PrintScalars(items, i + 1)

RECURSIVE PrintMember(_, _, _)
RECURSIVE PrintMembers(_, _, _, _)

PrintMembers(ms, i, lay, d) ==
    IF i > Len(ms) THEN <<>>
    ELSE PrintMember(ms[i], lay, d)
         \o (IF d = 0 /\ lay = "blank" /\ i < Len(ms) THEN <<NL>> ELSE <<>>)
         \o PrintMembers(ms, i + 1, lay, d)

\* a member as the API prints it: one member per line, the closing brace on
\* a line of its own ("lines", "blank"), or everything on one line
PrintMember(m, lay, d) ==
    Lead(lay, d) \o m[2] \o
    CASE m[1] = "scalar" -> Assign(lay) \o m[3][1] \o Eol(lay)
      [] m[1] = "noeq" -> <<SP>> \o m[3][1] \o Eol(lay)
      [] m[1] = "item" -> m[3][1] \o Eol(lay)
      [] m[1] = "item," -> m[3][1] \o <<",">> \o Eol(lay)
      [] m[1] = "object" ->
            Assign(lay) \o <<"{">> \o Eol(lay) \o PrintMembers(m[3], 1, lay, d + 1)
            \o Lead(lay, d) \o <<"}">> \o Eol(lay)
      [] m[1] = "flat" ->
            <<"[", "]">> \o Assign(lay) \o <<"{">> \o Eol(lay)
            \o (IF m[3] = <<>> THEN <<>>
                ELSE Lead(lay, d + 1) \o PrintScalars(m[3], 1) \o Eol(lay))
            \o Lead(lay, d) \o <<"}">> \o Eol(lay)
      [] m[1] \in {"group", "badlist"} ->
            <<"[", "]">> \o Assign(lay) \o <<"{">> \o Eol(lay) \o PrintMembers(m[3], 1, lay, d + 1)
            \o Lead(lay, d) \o <<"}">> \o Eol(lay)

PrintMessage(msg, lay) == PrintMembers(msg, 1, lay, 0)

\* the positions of the closing braces of a text, in order
ClosingBraces(s) == {i \in 1..Len(s) : s[i] = "}"}

Kth(S, k) == CHOOSE i \in S : Cardinality({j \in S : j <= i}) = k

\* what follows the last record of a damaged text
Junk ==
    {<<"}">>,
     <<"a">>,
     <<"a", SP, "=", SP, "{", NL, "=", NL, "}", NL>>}

NoDamage == <<"none">>

\* the damages of a printed text: one closing brace lost, or junk added
\* after the last record
Damages(s) ==
    {NoDamage}
    \cup {<<"unclosed", k>> : k \in 1..Cardinality(ClosingBraces(s))}
    \cup {<<"junk", j>> : j \in Junk}

Damaged(s, dmg) ==
    CASE dmg[1] = "none" -> s
      [] dmg[1] = "unclosed" ->
            LET i == Kth(ClosingBraces(s), dmg[2])
            IN  SubSeq(s, 1, i - 1) \o SubSeq(s, i + 1, Len(s))
      [] dmg[1] = "junk" -> s \o dmg[2]

----------------------------------------------------------------------------
(* The calls *)

NoValue == <<"none">>

\* no thread, no BCon
NoCalls == /\ threads = <<>> /\ locals = <<>>

NoBCon == /\ session = NoValue /\ bcon = NoValue

Init ==
    /\ tree \in Messages
    /\ layout \in Layouts
    /\ layout = "blank" => Len(tree) > 1
    /\ damage \in Damages(PrintMessage(tree, layout))
    /\ mystr = Damaged(PrintMessage(tree, layout), damage)
    /\ pc = "start"
    /\ ret = NoValue
    /\ NoCalls /\ NoBCon

CallToDictList ==
    /\ pc = "start"
    /\ ret' = to_dict_list(mystr)
    /\ pc' = "to_dict_list"
    /\ UNCHANGED <<tree, layout, damage, mystr>>
    /\ UNCHANGED <<callVars, bconVars>>

CallToJson ==
    /\ pc = "start"
    /\ ret' = to_json(mystr)
    /\ pc' = "to_json"
    /\ UNCHANGED <<tree, layout, damage, mystr>>
    /\ UNCHANGED <<callVars, bconVars>>

Next == CallToDictList \/ CallToJson

Spec == Init /\ [][Next]_vars

\* the calls on texts that hold one value, name or list of interest
InitValues ==
    /\ tree \in ValueMessages
    /\ layout \in ValueLayouts
    /\ damage = NoDamage
    /\ mystr = PrintMessage(tree, layout)
    /\ pc = "start"
    /\ ret = NoValue
    /\ NoCalls /\ NoBCon

SpecValues == InitValues /\ [][Next]_vars

----------------------------------------------------------------------------
(* What a message stands for, and where its members are in a result *)

\* the last member of the body with the name of the i-th
IsLastOfName(body, i) == \A j \in (i + 1)..Len(body) : body[j][2] /= body[i][2]

IsFirstOfName(body, i) == \A j \in 1..(i - 1) : body[j][2] /= body[i][2]

LastOfName(body, name) ==
    CHOOSE i \in 1..Len(body) : body[i][2] = name /\ IsLastOfName(body, i)

\* the subsequence of the elements of seq whose index satisfies Keep
RECURSIVE SelectIndices(_, _, _)
SelectIndices(seq, i, keep) ==
    IF i > Len(seq) THEN <<>>
    ELSE (IF i \in keep THEN <<seq[i]>> ELSE <<>>) \o SelectIndices(seq, i + 1, keep)

\* the names of a body in the order of their first appearance
FirstNames(body) ==
    SelectIndices([i \in 1..Len(body) |-> body[i][2]], 1,
                  {i \in 1..Len(body) : IsFirstOfName(body, i)})

RECURSIVE MemberValue(_)
\* the value a member stands for; an object as a mapping: one entry per
\* name, in the order of first appearance, holding the last body given
MemberValue(m) ==
    CASE m[1] = "scalar" -> m[3][2]
      [] m[1] = "object" ->
            <<"map", [i \in 1..Len(FirstNames(m[3])) |->
                        <<FirstNames(m[3])[i],
                          MemberValue(m[3][LastOfName(m[3], FirstNames(m[3])[i])])>>]>>
      [] m[1] = "flat" -> <<"list", [i \in 1..Len(m[3]) |-> m[3][i][2]]>>
      [] m[1] = "group" ->
            <<"list", [i \in 1..Len(m[3]) |->
                         <<"map", <<<<m[3][i][2], MemberValue(m[3][i])>>>>>>]>>

\* a record as an element of the result: {name: value}
RecordValue(m) == <<"map", <<<<m[2], MemberValue(m)>>>>>>

Absent == <<"absent">>

\* v[k] of a dict, Absent when v is no dict or has no key k
Lookup(v, k) ==
    IF v[1] = "map" /\ \E i \in 1..Len(v[2]) : v[2][i][1] = k
    THEN v[2][CHOOSE i \in 1..Len(v[2]) : v[2][i][1] = k][2]
    ELSE Absent

\* v[i] of a list, Absent when v is no list or is shorter
ElementAt(v, i) == IF v[1] = "list" /\ i <= Len(v[2]) THEN v[2][i] ELSE Absent

KeysOf(v) == [i \in 1..Len(v[2]) |-> v[2][i][1]]

RECURSIVE Pairs(_, _)
RECURSIVE PairsOfBody(_, _, _)
RECURSIVE PairsOfElements(_, _, _)

\* <<member, value>> for m and every member below it that no later member
\* of the same name in its body replaces: v is what the result holds where
\* m's value belongs
Pairs(m, v) ==
    <<<<m, v>>>> \o
    (CASE m[1] = "object" -> PairsOfBody(m[3], v, 1)
       [] m[1] = "group" -> PairsOfElements(m[3], v, 1)
       [] OTHER -> <<>>)

PairsOfBody(body, v, i) ==
    IF i > Len(body) THEN <<>>
    ELSE (IF IsLastOfName(body, i) THEN Pairs(body[i], Lookup(v, body[i][2])) ELSE <<>>)
         \o PairsOfBody(body, v, i + 1)

PairsOfElements(elems, v, i) ==
    IF i > Len(elems) THEN <<>>
    ELSE Pairs(elems[i], Lookup(ElementAt(v, i), elems[i][2]))
         \o PairsOfElements(elems, v, i + 1)

RECURSIVE PairsOfRecords(_, _, _)
PairsOfRecords(msg, v, i) ==
    IF i > Len(msg) THEN <<>>
    ELSE Pairs(msg[i], Lookup(ElementAt(v, i), msg[i][2])) \o PairsOfRecords(msg, v, i + 1)

\* the members of the message with their values in what to_dict_list returned
AllPairs == PairsOfRecords(tree, ret[2], 1)

\* to_dict_list was called on the text as printed
CalledOnPrinted == pc = "to_dict_list" /\ damage = NoDamage

\* ... and returned one element per record of the text
FullReturn == Returned(ret) /\ Len(ret[2][2]) = Len(tree)

\* the calls the claims about the content of the result are about: the text
\* is printed one member per line, or the result has every record
Settled == CalledOnPrinted /\ (layout \in LineLayouts \/ FullReturn)

----------------------------------------------------------------------------
(* The claims *)

IsEmptyObject(m) == m[1] = "object" /\ m[3] = <<>>

HasRepeats(m) == m[1] = "object" /\ \E i \in 1..Len(m[3]) : ~IsLastOfName(m[3], i)

\* C1: for a text of n records printed one member per line, to_dict_list
\* returns a list of exactly n elements; element i is a mapping with the one
\* key that is the i-th record's name, mapped to that record's body; records
\* of the same name stay separate elements.
C1_OneElementPerRecord ==
    (CalledOnPrinted /\ layout \in LineLayouts) =>
        /\ Returned(ret)
        /\ ret[2] = <<"list", [i \in 1..Len(tree) |-> RecordValue(tree[i])]>>

C1_Witness ==
    /\ CalledOnPrinted /\ layout \in LineLayouts
    /\ Len(tree) = 2 /\ tree[1][2] = tree[2][2] /\ tree[1] /= tree[2]
    /\ Returned(ret) /\ Len(ret[2][2]) = 2

\* C2: to_dict_list raises for every text in which some { has no matching },
\* wherever the unclosed block stands.
C2_UnclosedBraceRaises ==
    (pc = "to_dict_list" /\ damage[1] = "unclosed") => Raised(ret)

\* C3: when complete records are followed by text that is no complete
\* record, to_dict_list raises and returns none of the records before it.
C3_NoPartialRecovery ==
    (pc = "to_dict_list" /\ damage[1] = "junk") => Raised(ret)

\* C4: to_json returns the JSON text, indented by 2, of the list that
\* to_dict_list returns for the same text.
C4_ToJsonReturnsText ==
    (pc = "to_json" /\ Returned(ret)) =>
        ret[2] = json_dumps(to_dict_list(mystr)[2], 0)

\* C5: a member with an empty { } body, at top level or nested, is in the
\* result under its key with an empty mapping as its value.
C5_EmptyBodyIsEmptyMapping ==
    Settled =>
        LET ps == AllPairs
        IN  /\ Returned(ret)
            /\ \A i \in 1..Len(ps) : IsEmptyObject(ps[i][1]) => ps[i][2] = EmptyDict

C5_Witness ==
    /\ Settled /\ Returned(ret)
    /\ tree = <<<<"object", <<"a">>, <<<<"object", <<"b">>, <<>>>>>>>>>>
    /\ Lookup(Lookup(ret[2][2][1], <<"a">>), <<"b">>) = EmptyDict

\* C6: a list member name[] = { } with an empty body is in the result under
\* its key with an empty list as its value.
C6_EmptyListIsEmptyList ==
    Settled =>
        LET ps == AllPairs
        IN  /\ Returned(ret)
            /\ \A i \in 1..Len(ps) :
                  (ps[i][1][1] = "flat" /\ ps[i][1][3] = <<>>) => ps[i][2] = <<"list", <<>>>>

C6_Witness ==
    /\ Settled /\ Returned(ret)
    /\ \E i \in 1..Len(tree[1][3]) : tree[1][3][i] = <<"flat", <<"b">>, <<>>>>
    /\ Lookup(Lookup(ret[2][2][1], <<"a">>), <<"b">>) = <<"list", <<>>>>

\* C7: a [] body of k members name = { ... } gives a list of exactly k
\* elements in source order, element i the one-key mapping from the i-th
\* member's name to that member's own body.
C7_GroupListOneElementPerMember ==
    Settled =>
        LET ps == AllPairs
        IN  /\ Returned(ret)
            /\ \A i \in 1..Len(ps) :
                  ps[i][1][1] = "group" =>
                      ps[i][2] = <<"list", [j \in 1..Len(ps[i][1][3]) |->
                                              RecordValue(ps[i][1][3][j])]>>

C7_Witness ==
    /\ Settled /\ Returned(ret)
    /\ tree[1][1] = "object" /\ Len(tree[1][3]) = 1 /\ tree[1][3][1][1] = "group"
    /\ Len(tree[1][3][1][3]) = 2
    /\ tree[1][3][1][3][1][2] = tree[1][3][1][3][2][2]
    /\ tree[1][3][1][3][1][3] /= tree[1][3][1][3][2][3]
    /\ Len(Lookup(Lookup(ret[2][2][1], <<"a">>), <<"b">>)[2]) = 2

\* C8: a [] body of comma-separated scalars gives the plain list of those
\* scalar values, in source order, duplicates kept, not wrapped in mappings.
C8_FlatListOfScalars ==
    Settled =>
        LET ps == AllPairs
        IN  /\ Returned(ret)
            /\ \A i \in 1..Len(ps) :
                  ps[i][1][1] = "flat" =>
                      ps[i][2] = <<"list", [j \in 1..Len(ps[i][1][3]) |-> ps[i][1][3][j][2]]>>

C8_Witness ==
    /\ Settled /\ Returned(ret)
    /\ tree[1][1] = "object" /\ Len(tree[1][3]) = 1 /\ tree[1][3][1][1] = "flat"
    /\ Len(tree[1][3][1][3]) = 2 /\ tree[1][3][1][3][1] = tree[1][3][1][3][2]
    /\ Len(Lookup(Lookup(ret[2][2][1], <<"a">>), <<"b">>)[2]) = 2

\* the values of the members of the body that have the name, in source order
ValuesOfName(body, name) ==
    SelectIndices([i \in 1..Len(body) |-> MemberValue(body[i])], 1,
                  {i \in 1..Len(body) : body[i][2] = name})

\* C9 as stated: members of one body that repeat a name, outside a [] body,
\* are grouped under the shared key as the list of their bodies.
C9_RepeatsGroupedAsList ==
    Settled =>
        LET ps == AllPairs
        IN  /\ Returned(ret)
            /\ \A i \in 1..Len(ps) :
                  HasRepeats(ps[i][1]) =>
                      \A j \in 1..Len(ps[i][1][3]) :
                          ~IsLastOfName(ps[i][1][3], j) =>
                              Lookup(ps[i][2], ps[i][1][3][j][2])
                                  = <<"list", ValuesOfName(ps[i][1][3], ps[i][1][3][j][2])>>

\* C9, amended: members of one body that repeat a name, outside a [] body,
\* do not make the call raise; the shared key is in the mapping once, at the
\* place of its first member, and holds the body of its last member alone.
C9_LastRepeatReplaces ==
    Settled =>
        LET ps == AllPairs
        IN  /\ Returned(ret)
            /\ \A i \in 1..Len(ps) :
                  HasRepeats(ps[i][1]) =>
                      /\ KeysOf(ps[i][2]) = FirstNames(ps[i][1][3])
                      /\ \A j \in 1..Len(ps[i][1][3]) :
                            Lookup(ps[i][2], ps[i][1][3][j][2])
                                = MemberValue(ps[i][1][3][LastOfName(ps[i][1][3],
                                                                     ps[i][1][3][j][2])])

C9_Witness ==
    /\ Settled /\ Returned(ret)
    /\ tree[1][1] = "object" /\ Len(tree[1][3]) = 2
    /\ tree[1][3][1][2] = tree[1][3][2][2] /\ tree[1][3][1][3] /= tree[1][3][2][3]
    /\ Len(Lookup(ret[2][2][1], <<"a">>)[2]) = 1

\* the keys of a value in the order json.dumps writes them
RECURSIVE KeysOfValue(_)
RECURSIVE KeysFrom(_, _)
KeysFrom(v, i) ==
    IF i > Len(v[2]) THEN <<>>
    ELSE (IF v[1] = "map" THEN <<v[2][i][1]>> \o KeysOfValue(v[2][i][2])
          ELSE KeysOfValue(v[2][i]))
         \o KeysFrom(v, i + 1)

KeysOfValue(v) == IF v[1] \in {"map", "list"} THEN KeysFrom(v, 1) ELSE <<>>

\* the index of the quote that closes the JSON string opened before i
RECURSIVE ClosingQuote(_, _)
ClosingQuote(text, i) ==
    IF i > Len(text) \/ text[i] = QUOTE THEN i
    ELSE IF text[i] = "\\" THEN ClosingQuote(text, i + 2)
    ELSE ClosingQuote(text, i + 1)

\* the keys of a JSON text, in the order they stand in it: the strings that
\* a ":" follows
RECURSIVE KeysInText(_, _)
KeysInText(text, i) ==
    IF i > Len(text) THEN <<>>
    ELSE IF text[i] /= QUOTE THEN KeysInText(text, i + 1)
    ELSE LET j == ClosingQuote(text, i + 1)
         IN  (IF CharAt(text, j + 1) = ":" THEN <<SubSeq(text, i + 1, j - 1)>> ELSE <<>>)
             \o KeysInText(text, j + 1)

\* the first half of C10: the keys of every returned mapping are in the
\* order in which its fields first appear in the text
C10_DictKeysInSourceOrder ==
    Settled =>
        LET ps == AllPairs
        IN  /\ Returned(ret)
            /\ \A i \in 1..Len(ps) :
                  ps[i][1][1] = "object" =>
                      ps[i][2][1] = "map" /\ KeysOf(ps[i][2]) = FirstNames(ps[i][1][3])

\* C10: for every object body, the order of the keys in the returned
\* mapping, and in to_json's text, is the order of the fields in the text.
C10_KeysInSourceOrder ==
    /\ C10_DictKeysInSourceOrder
    /\ (pc = "to_json" /\ damage = NoDamage /\ layout \in LineLayouts) =>
          /\ Returned(ret)
          /\ ret[2] /= None
          /\ KeysInText(ret[2], 1)
                = KeysOfValue(<<"list", [i \in 1..Len(tree) |-> RecordValue(tree[i])]>>)

----------------------------------------------------------------------------
(* The claims about values, names and malformed members *)

IsBad(sc) == sc[2][1] = "bad"

\* no member of the message is malformed
RECURSIVE WellFormed(_)
WellFormed(m) ==
    CASE m[1] = "scalar" -> ~IsBad(m[3])
      [] m[1] = "flat" -> \A j \in 1..Len(m[3]) : ~IsBad(m[3][j])
      [] m[1] \in {"object", "group"} -> \A j \in 1..Len(m[3]) : WellFormed(m[3][j])
      [] OTHER -> FALSE

WellFormedMessage == \A i \in 1..Len(tree) : WellFormed(tree[i])

\* to_dict_list was called on a text without a malformed member
CalledOnWellFormed == pc = "to_dict_list" /\ damage = NoDamage /\ WellFormedMessage

\* the literals of a member, each with what the result holds in its place
LiteralsOf(p) ==
    CASE p[1][1] = "scalar" -> <<<<p[1][3], p[2]>>>>
      [] p[1][1] = "flat" -> [j \in 1..Len(p[1][3]) |-> <<p[1][3][j], ElementAt(p[2], j)>>]
      [] OTHER -> <<>>

RECURSIVE LiteralsFrom(_, _)
LiteralsFrom(ps, i) ==
    IF i > Len(ps) THEN <<>> ELSE LiteralsOf(ps[i]) \o LiteralsFrom(ps, i + 1)

\* every literal of the message with the value returned for it
ReturnedLiterals == LiteralsFrom(AllPairs, 1)

HasPointOrExponent(lex) == \E i \in 1..Len(lex) : lex[i] \in {".", "e", "E"}

\* C11: a number literal without decimal point and exponent is returned as
\* the int it denotes, one with a decimal point or an exponent as the float
\* it denotes; never an int for the latter or a float for the former.
C11_IntegerOrFloat ==
    CalledOnWellFormed =>
        /\ Returned(ret)
        /\ \A i \in 1..Len(ReturnedLiterals) :
              ReturnedLiterals[i][1] \in NumberLiterals =>
                  /\ ReturnedLiterals[i][2] = ReturnedLiterals[i][1][2]
                  /\ ReturnedLiterals[i][2][1]
                        = (IF HasPointOrExponent(ReturnedLiterals[i][1][1])
                           THEN "float" ELSE "int")

C11_Witness ==
    /\ CalledOnWellFormed /\ Returned(ret)
    /\ \E i \in 1..Len(ReturnedLiterals) :
          /\ ReturnedLiterals[i][1][1] = <<"1", "e", "2">>
          /\ ReturnedLiterals[i][2] = <<"float", 100, 0>>

\* C12: a bare YYYY-MM-DD value is returned as that string of 10 characters
\* and a bare HH:MM:SS.mmm value as that string of 12 characters: never a
\* number made of its leading digits, never a shorter string.
C12_DateAndTimeAreStrings ==
    CalledOnWellFormed =>
        /\ Returned(ret)
        /\ \A i \in 1..Len(ReturnedLiterals) :
              /\ ReturnedLiterals[i][1] \in DateLiterals =>
                    /\ ReturnedLiterals[i][2] = <<"str", ReturnedLiterals[i][1][1]>>
                    /\ Len(ReturnedLiterals[i][2][2]) = 10
              /\ ReturnedLiterals[i][1] \in TimeLiterals =>
                    /\ ReturnedLiterals[i][2] = <<"str", ReturnedLiterals[i][1][1]>>
                    /\ Len(ReturnedLiterals[i][2][2]) = 12

C12_Witness ==
    /\ CalledOnWellFormed /\ Returned(ret)
    /\ \E i \in 1..Len(ReturnedLiterals) :
          /\ ReturnedLiterals[i][1][1] = <<"2", "0", "1", "5", "-", "0", "6", "-", "2", "9">>
          /\ ReturnedLiterals[i][2] = <<"str", ReturnedLiterals[i][1][1]>>
          /\ Len(tree[1][3]) = 2

\* C13: a double-quoted value is returned as a string, the text between its
\* quotes unchanged: digits, dates and times stay strings, and [ ] = { } and
\* trailing spaces inside the quotes are kept.
C13_QuotedValueIsItsText ==
    CalledOnWellFormed =>
        /\ Returned(ret)
        /\ \A i \in 1..Len(ReturnedLiterals) :
              ReturnedLiterals[i][1][1][1] = QUOTE =>
                  ReturnedLiterals[i][2]
                      = <<"str", SubSeq(ReturnedLiterals[i][1][1], 2,
                                        Len(ReturnedLiterals[i][1][1]) - 1)>>

C13_Witness ==
    /\ CalledOnWellFormed /\ Returned(ret)
    /\ \E i, j \in 1..Len(mystr) :
          /\ i < j /\ mystr[i] = QUOTE /\ mystr[j] = QUOTE
          /\ SubSeq(mystr, i + 1, j - 1) = <<"x", SP, SP>>
          /\ \E k \in 1..Len(ReturnedLiterals) :
                ReturnedLiterals[k][2] = <<"str", <<"x", SP, SP>>>>

\* C14: the key of a member is its field name, embedded spaces kept and
\* trailing whitespace removed; no key contains [, ] or =.
C14_KeyIsTrimmedFieldName ==
    CalledOnWellFormed =>
        /\ Returned(ret)
        /\ \A i \in 1..Len(AllPairs) : AllPairs[i][2] /= Absent
        /\ \A i \in 1..Len(KeysOfValue(ret[2])) :
              LET key == KeysOfValue(ret[2])[i]
              IN  /\ key /= <<>>
                  /\ key[Len(key)] \notin Whitespace
                  /\ \A j \in 1..Len(key) : key[j] \notin {"[", "]", "="}

C14_Witness ==
    /\ CalledOnWellFormed /\ Returned(ret) /\ layout = "padded"
    /\ tree[1][1] = "object" /\ tree[1][3][1][1] = "flat"
    /\ tree[1][3][1][2] = <<"a", SP, "b">>
    /\ KeysOf(Lookup(ret[2][2][1], <<"a">>))[1] = <<"a", SP, "b">>

----------------------------------------------------------------------------
(* The claims about what separates records *)

\* every record of the message, alone in a text of the layout, is returned
EachRecordParses ==
    \A i \in 1..Len(tree) :
        /\ Returned(to_dict_list(PrintMessage(<<tree[i]>>, layout)))
        /\ Len(to_dict_list(PrintMessage(<<tree[i]>>, layout))[2][2]) = 1

----------------------------------------------------------------------------
(* The claims about malformed members *)

\* the member, or a member below it, is of one of the kinds
RECURSIVE HoldsKind(_, _)
HoldsKind(m, kinds) ==
    \/ m[1] \in kinds
    \/ /\ m[1] \in {"object", "group", "badlist"}
       /\ \E j \in 1..Len(m[3]) : HoldsKind(m[3][j], kinds)

\* the member, or a member below it, has a value or a list item of the tag
RECURSIVE HoldsBad(_, _)
HoldsBad(m, tag) ==
    CASE m[1] = "scalar" -> m[3][2] = tag
      [] m[1] = "flat" -> \E j \in 1..Len(m[3]) : m[3][j][2] = tag
      [] m[1] \in {"object", "group"} -> \E j \in 1..Len(m[3]) : HoldsBad(m[3][j], tag)
      [] OTHER -> FALSE

\* C16: a [] body that is neither a list of scalars nor a list of
\* name = { ... } members makes to_dict_list raise.
C16_BadListBodyRaises ==
    (pc = "to_dict_list" /\ \E i \in 1..Len(tree) : HoldsKind(tree[i], {"badlist"}))
        => Raised(ret)

\* ... which it does when the body is in the first record of the text
C16_RaisesInFirstRecord ==
    (pc = "to_dict_list" /\ HoldsKind(tree[1], {"badlist"})) => Raised(ret)

\* C17: a text with an unterminated double-quoted string, or with a field
\* name that no = follows, makes to_dict_list raise.
C17_UnterminatedOrNoEqualRaises ==
    (pc = "to_dict_list"
     /\ \E i \in 1..Len(tree) :
           HoldsBad(tree[i], Unterminated) \/ HoldsKind(tree[i], {"noeq"}))
        => Raised(ret)

\* ... which it does when the string or the name is in the first record
C17_RaisesInFirstRecord ==
    (pc = "to_dict_list"
     /\ (HoldsBad(tree[1], Unterminated) \/ HoldsKind(tree[1], {"noeq"})))
        => Raised(ret)

\* C18: a member whose value is no quoted string, date, time, number or
\* { body, or is a literal with further characters after it, makes
\* to_dict_list raise.
C18_UnparsableValueRaises ==
    (pc = "to_dict_list" /\ \E i \in 1..Len(tree) : HoldsBad(tree[i], Unparsable))
        => Raised(ret)

\* ... which it does when the member is in the body of the first record
C18_RaisesInFirstBody ==
    (pc = "to_dict_list" /\ tree[1][1] = "object" /\ HoldsBad(tree[1], Unparsable))
        => Raised(ret)

----------------------------------------------------------------------------
(* Calls of to_dict_list from several threads, one statement at a time *)

Threads == {"t1", "t2"}

MaxCalls == 2    \* calls a thread makes, one after the other

\* the texts the threads pass: one record, two records, a scalar record, a
\* text that raises, a text with a stray brace after its record
CallTexts ==
    LET one == <<<<"object", <<"a">>, <<>>>>>>
        two == <<<<"object", <<"a">>, <<<<"scalar", <<"a">>, <<<<"1">>, <<"int", 1>>>>>>>>>>,
                 <<"object", <<"b">>, <<>>>>>>
        str == <<<<"scalar", <<"b">>, <<<<QUOTE, "x", QUOTE>>, <<"str", <<"x">>>>>>>>>>
    IN  {PrintMessage(one, "lines"), PrintMessage(two, "lines"), PrintMessage(str, "lines"),
         Damaged(PrintMessage(one, "lines"), <<"unclosed", 1>>),
         Damaged(PrintMessage(one, "lines"), <<"junk", <<"}">>>>)}

\* one frame for all calls, as if res and dicts were module-level names
FrameOf_shared(t) == "t1"

\* the frame that holds the local variables of the call of a thread: every
\* call has its own
FrameOf(t) == t

NoFrame == [res |-> NoValue, dicts |-> NoValue, i |-> 0]

InitCalls ==
    /\ tree = <<>> /\ layout = "lines" /\ damage = NoDamage /\ mystr = <<>>
    /\ pc = "threads" /\ ret = NoValue
    /\ threads = [t \in Threads |-> [pc |-> "idle", mystr |-> <<>>, ret |-> NoValue, ncalls |-> 0,
                                  before |-> NoValue]]
    /\ locals = [t \in Threads |-> NoFrame]
    /\ NoBCon

\* a thread calls to_dict_list(mystr)
Call(t) ==
    /\ threads[t].pc \in {"idle", "done"}
    /\ threads[t].ncalls < MaxCalls
    /\ \E s \in CallTexts :
          threads' = [threads EXCEPT ![t] = [pc |-> "line61", mystr |-> s, ret |-> NoValue,
                                             ncalls |-> @.ncalls + 1, before |-> @.ret]]
    /\ UNCHANGED <<locals, parserVars, bconVars>>

\* res = _parse(mystr)
ParseStep(t) ==
    /\ threads[t].pc = "line61"
    /\ IF Raised(_parse(threads[t].mystr))
       THEN /\ threads' = [threads EXCEPT ![t].pc = "done", ![t].ret = ParseException]
            /\ UNCHANGED locals
       ELSE /\ locals' = [locals EXCEPT ![FrameOf(t)].res = toklistOf(_parse(threads[t].mystr)[2])]
            /\ threads' = [threads EXCEPT ![t].pc = "line62"]
    /\ UNCHANGED <<parserVars, bconVars>>

\* dicts = []
NewDicts(t) ==
    /\ threads[t].pc = "line62"
    /\ locals' = [locals EXCEPT ![FrameOf(t)].dicts = <<>>, ![FrameOf(t)].i = 1]
    /\ threads' = [threads EXCEPT ![t].pc = "line63"]
    /\ UNCHANGED <<parserVars, bconVars>>

\* for res_dict in res: dicts.append(res_dict.asDict())
AppendStep(t) ==
    /\ threads[t].pc = "line63"
    /\ locals[FrameOf(t)].i <= Len(locals[FrameOf(t)].res)
    /\ locals' = [locals EXCEPT
                    ![FrameOf(t)].dicts =
                        Append(@, asDict(locals[FrameOf(t)].res[locals[FrameOf(t)].i])),
                    ![FrameOf(t)].i = @ + 1]
    /\ UNCHANGED <<threads, parserVars, bconVars>>

\* return dicts
ReturnStep(t) ==
    /\ threads[t].pc = "line63"
    /\ locals[FrameOf(t)].i > Len(locals[FrameOf(t)].res)
    /\ threads' = [threads EXCEPT ![t].pc = "done",
                                  ![t].ret = <<"return", <<"list", locals[FrameOf(t)].dicts>>>>]
    /\ locals' = [locals EXCEPT ![FrameOf(t)] = NoFrame]
    /\ UNCHANGED <<parserVars, bconVars>>

NextCalls ==
    \E t \in Threads :
        Call(t) \/ ParseStep(t) \/ NewDicts(t) \/ AppendStep(t) \/ ReturnStep(t)

SpecCalls == InitCalls /\ [][NextCalls]_vars

\* C19: whatever calls ran before a call of to_dict_list or run at the same
\* time, what the call returns or raises is what the text alone determines.
C19_CallsAreIndependent ==
    \A t \in Threads :
        threads[t].pc = "done" => threads[t].ret = to_dict_list(threads[t].mystr)

\* a second call of a thread returned, after a first call that raised, while
\* the other thread was in the loop of a call on another text
C19_Witness ==
    /\ threads["t1"].pc = "done" /\ threads["t1"].before = ParseException
    /\ Returned(threads["t1"].ret) /\ Len(threads["t1"].ret[2][2]) = 2
    /\ threads["t2"].pc = "line63" /\ locals["t2"].i = 2
    /\ threads["t2"].mystr /= threads["t1"].mystr

----------------------------------------------------------------------------
(* BCon.start on a blpapi.Session *)
(*                                                                         *)
(* The session is the environment: whether it starts, whether a service    *)
(* opens and which events it delivers are its choice. nextEvent() waits    *)
(* for an event; nextEvent(timeout) gives a TIMEOUT event when none came.  *)

MaxEvents == 4    \* events the session delivers

\* the event types the session delivers by itself
DeliveredTypes == {"SESSION_STATUS", "SERVICE_STATUS", "RESPONSE", "ADMIN"}

\* the keys of _EVENT_DICT
_EVENT_DICT ==
    {"SESSION_STATUS", "RESPONSE", "PARTIAL_RESPONSE", "SERVICE_STATUS", "TIMEOUT", "REQUEST"}

Raise(e) == <<"raise", e>>

InitStart ==
    /\ tree = <<>> /\ layout = "lines" /\ damage = NoDamage /\ mystr = <<>>
    /\ pc = "bcon" /\ ret = NoValue
    /\ NoCalls
    /\ \E st \in {"created", "started"} :
          session = [state |-> st, queue |-> <<>>, delivered |-> 0, log |-> <<>>]
    /\ bcon = [method |-> "start", pc |-> "line124", started |-> NoValue,
               opened |-> NoValue, ev |-> "none", after |-> "none",
               outcome |-> NoValue, services |-> {}]

\* the session puts an event in its queue
Deliver ==
    /\ session.state /= "none"
    /\ session.delivered < MaxEvents
    /\ \E e \in DeliveredTypes :
          session' = [session EXCEPT !.queue = Append(@, e), !.delivered = @ + 1]
    /\ UNCHANGED <<bcon, parserVars, callVars>>

\* what nextEvent(timeout) returns, and the queue it leaves
NextEventOrTimeout(q) == IF q = <<>> THEN <<"TIMEOUT", q>> ELSE <<Head(q), Tail(q)>>

\* started = self._session.start(): a session that is started already
\* stays so and answers false (test_multi_start, a session passed to bopen)
StartSession ==
    /\ bcon.pc = "line124"
    /\ \E ok \in BOOLEAN :
          /\ session.state = "started" => ~ok
          /\ session' = [session EXCEPT !.state = IF ok \/ @ = "started" THEN "started"
                                                  ELSE "failed",
                                         !.log = Append(@, "start")]
          /\ bcon' = [bcon EXCEPT !.started = ok,
                                   !.pc = IF ok THEN "line126" ELSE "line143"]
    /\ UNCHANGED <<parserVars, callVars>>

\* ev = nextEvent(); ev_name = _EVENT_DICT[ev.eventType()]; the check that
\* the event is of the type expected
ExpectEvent(type, next) ==
    /\ session.queue /= <<>>
    /\ session' = [session EXCEPT !.queue = Tail(@)]
    /\ bcon' = [bcon EXCEPT
                  !.ev = Head(session.queue),
                  !.outcome = IF Head(session.queue) \notin _EVENT_DICT THEN Raise("KeyError")
                              ELSE IF Head(session.queue) /= type THEN Raise("RuntimeError")
                              ELSE @,
                  !.pc = IF Head(session.queue) = type THEN next ELSE "done"]

\* the first SESSION_STATUS event of a started session
FirstSessionStatus ==
    /\ bcon.pc = "line126"
    /\ ExpectEvent("SESSION_STATUS", "line134")
    /\ UNCHANGED <<parserVars, callVars>>

\* the second SESSION_STATUS event of a started session
SecondSessionStatus ==
    /\ bcon.pc = "line134"
    /\ ExpectEvent("SESSION_STATUS", "line158")
    /\ UNCHANGED <<parserVars, callVars>>

\* line 144: the event after a start that failed tells of the failure
CouldNotStart_always(ev) == TRUE

CouldNotStart(ev) == ev = "SESSION_STATUS"

\* the else branch: ev = nextEvent(self.timeout); ConnectionError if the
\* event is a SESSION_STATUS event
StartFailed ==
    /\ bcon.pc = "line143"
    /\ session' = [session EXCEPT !.queue = NextEventOrTimeout(@)[2]]
    /\ bcon' = [bcon EXCEPT
                  !.ev = NextEventOrTimeout(session.queue)[1],
                  !.after = NextEventOrTimeout(session.queue)[1],
                  !.outcome = IF CouldNotStart(NextEventOrTimeout(session.queue)[1])
                              THEN Raise("ConnectionError") ELSE @,
                  !.pc = IF CouldNotStart(NextEventOrTimeout(session.queue)[1])
                         THEN "done" ELSE "line158"]
    /\ UNCHANGED <<parserVars, callVars>>

\* opened = self._session.openService(name)
OpenService(at, name, next) ==
    /\ bcon.pc = at
    /\ \E ok \in BOOLEAN :
          /\ ok => session.state = "started"
          /\ bcon' = [bcon EXCEPT !.opened = ok, !.pc = next]
    /\ session' = [session EXCEPT !.log = Append(@, name)]
    /\ UNCHANGED <<parserVars, callVars>>

\* the SERVICE_STATUS event after openService, the check of opened, and
\* getService
ServiceStatus(at, name, next) ==
    /\ bcon.pc = at
    /\ session.queue /= <<>>
    /\ session' = [session EXCEPT !.queue = Tail(@)]
    /\ bcon' = [bcon EXCEPT
                  !.ev = Head(session.queue),
                  !.outcome = IF Head(session.queue) \notin _EVENT_DICT THEN Raise("KeyError")
                              ELSE IF Head(session.queue) /= "SERVICE_STATUS"
                              THEN Raise("RuntimeError")
                              ELSE IF ~bcon.opened THEN Raise("ConnectionError")
                              ELSE IF next = "done" THEN <<"return", "self">>
                              ELSE @,
                  !.services = IF Head(session.queue) = "SERVICE_STATUS" /\ bcon.opened
                               THEN @ \cup {name} ELSE @,
                  !.pc = IF Head(session.queue) = "SERVICE_STATUS" /\ bcon.opened
                         THEN next ELSE "done"]
    /\ UNCHANGED <<parserVars, callVars>>

OpenRefData == OpenService("line158", "//blp/refdata", "line159")

RefDataStatus == ServiceStatus("line159", "//blp/refdata", "line172")

OpenExrsvc == OpenService("line172", "//blp/exrsvc", "line173")

ExrsvcStatus == ServiceStatus("line173", "//blp/exrsvc", "done")

NextStart ==
    \/ Deliver
    \/ StartSession
    \/ FirstSessionStatus
    \/ SecondSessionStatus
    \/ StartFailed
    \/ OpenRefData
    \/ RefDataStatus
    \/ OpenExrsvc
    \/ ExrsvcStatus

SpecStart == InitStart /\ [][NextStart]_vars

\* a service was asked for
OpenedAService == \E i \in 1..Len(session.log) : session.log[i] /= "start"

\* C20: when session.start() returned false, start() raises ConnectionError,
\* whatever event the session delivers next, and asks for no service.
C20_FailedStartRaises ==
    (bcon.method = "start" /\ bcon.pc \notin {"line124", "line143"} /\ ~bcon.started)
        => /\ bcon.pc = "done" => bcon.outcome = Raise("ConnectionError")
           /\ ~OpenedAService

\* C20 as the code has it: start() raises ConnectionError, and opens no
\* service, when session.start() returned false and the event that follows
\* is a SESSION_STATUS event; when no event follows in time, as with a
\* session that is started already, or an event of another type does,
\* start() goes on to open the services.
C20_FailedStartRaisesOnSessionStatus ==
    (bcon.method = "start" /\ bcon.pc \notin {"line124", "line143"} /\ ~bcon.started)
        => /\ bcon.after = "SESSION_STATUS"
                 => /\ bcon.pc = "done"
                    /\ bcon.outcome = Raise("ConnectionError")
                    /\ ~OpenedAService
           /\ bcon.after /= "SESSION_STATUS"
                 => /\ bcon.pc = "line158" \/ OpenedAService
                    /\ bcon.pc = "done" /\ bcon.services = {"//blp/refdata", "//blp/exrsvc"}
                          => bcon.outcome = <<"return", "self">>

C20_Witness ==
    /\ bcon.method = "start" /\ bcon.pc = "done"
    /\ session.log[1] = "start" /\ ~bcon.started
    /\ bcon.after = "TIMEOUT"
    /\ bcon.outcome = <<"return", "self">>

----------------------------------------------------------------------------
(* The braces of the text and the keys of the result *)

HasBrace(k) == \E i \in 1..Len(k) : k[i] = "}"

\* the keys of the result that hold a closing brace
BraceKeys == {i \in 1..Len(KeysOfValue(ret[2])) : HasBrace(KeysOfValue(ret[2])[i])}

\* C25: whenever to_dict_list returns, no key of the result holds a closing
\* brace of the text: every one was taken as the close of a body.
C25_NoBraceInKeys ==
    (pc = "to_dict_list" /\ Returned(ret)) => BraceKeys = {}

\* the same for the texts as printed, one member per line
C25_NoBraceInKeysOfLines ==
    (CalledOnPrinted /\ layout \in LineLayouts /\ Returned(ret)) => BraceKeys = {}

----------------------------------------------------------------------------
(* bopen: BCon(kwargs), start(), the with-block, stop() *)
(*                                                                         *)
(* bcon.at is the line bopen is at, bcon.pc the line of the BCon method it *)
(* called. The caller passes a session of its own or none.                 *)

\* lines 92-94: the event read from a session that was passed in
FlushCheck_off(ev) == NoValue

FlushCheck(ev) == IF ev /= "TIMEOUT" THEN Raise("ValueError") ELSE NoValue

InitOpen ==
    /\ tree = <<>> /\ layout = "lines" /\ damage = NoDamage /\ mystr = <<>>
    /\ pc = "bcon" /\ ret = NoValue
    /\ NoCalls
    /\ \E st \in {"none", "created", "started"} :
          session = [state |-> st, queue |-> <<>>, delivered |-> 0, log |-> <<>>]
    /\ bcon = [method |-> "bopen", at |-> "line49", pc |-> "line85",
               given |-> session.state /= "none", waiting |-> NoValue,
               started |-> NoValue, opened |-> NoValue, ev |-> "none", after |-> "none",
               outcome |-> NoValue, services |-> {}, block |-> NoValue]

\* con = BCon(kwargs), lines 85-100: a session of its own, or the check
\* that the queue of the session passed in is empty
Construct ==
    /\ bcon.at = "line49" /\ bcon.pc = "line85"
    /\ IF bcon.given
       THEN /\ session' = [session EXCEPT !.queue = NextEventOrTimeout(@)[2]]
            /\ bcon' = [bcon EXCEPT
                          !.waiting = session.queue,
                          !.ev = NextEventOrTimeout(session.queue)[1],
                          !.outcome = FlushCheck(NextEventOrTimeout(session.queue)[1]),
                          !.at = IF FlushCheck(NextEventOrTimeout(session.queue)[1]) = NoValue
                                 THEN "line50" ELSE "left",
                          !.pc = IF FlushCheck(NextEventOrTimeout(session.queue)[1]) = NoValue
                                 THEN "line124" ELSE "done"]
       ELSE /\ session' = [session EXCEPT !.state = "created"]
            /\ bcon' = [bcon EXCEPT !.at = "line50", !.pc = "line124"]
    /\ UNCHANGED <<parserVars, callVars>>

\* con.start() is over: what it raised leaves bopen, line 50 being outside
\* the try; else the with-block is entered
StartReturned ==
    /\ bcon.at = "line50" /\ bcon.pc = "done"
    /\ bcon' = [bcon EXCEPT !.at = IF bcon.outcome[1] = "raise" THEN "left" ELSE "line52"]
    /\ UNCHANGED <<session, parserVars, callVars>>

\* yield con: the with-block finishes or raises
WithBlock ==
    /\ bcon.at = "line52"
    /\ \E how \in {<<"return", "None">>, Raise("Exception")} :
          bcon' = [bcon EXCEPT !.block = how, !.at = "line54"]
    /\ UNCHANGED <<session, parserVars, callVars>>

\* finally: con.stop(), which is self._session.stop()
Stop ==
    /\ bcon.at = "line54"
    /\ session' = [session EXCEPT !.state = "stopped", !.log = Append(@, "stop")]
    /\ bcon' = [bcon EXCEPT !.outcome = bcon.block, !.at = "left"]
    /\ UNCHANGED <<parserVars, callVars>>

NextOpen ==
    \/ Deliver
    \/ Construct
    \/ StartSession
    \/ FirstSessionStatus
    \/ SecondSessionStatus
    \/ StartFailed
    \/ OpenRefData
    \/ RefDataStatus
    \/ OpenExrsvc
    \/ ExrsvcStatus
    \/ StartReturned
    \/ WithBlock
    \/ Stop

SpecOpen == InitOpen /\ [][NextOpen]_vars

\* the calls of stop() on the session
Stops == {i \in 1..Len(session.log) : session.log[i] = "stop"}

\* con.start() got as far as self._session.start()
StartCalled == \E i \in 1..Len(session.log) : session.log[i] = "start"

\* BCon was called with a session and is over
Constructed == bcon.method = "bopen" /\ bcon.given /\ bcon.pc /= "line85"

\* C21: BCon called with a session raises ValueError whenever an event was
\* waiting in the queue of that session, and returns only when the queue was
\* empty and the first nextEvent timed out.
C21_NonEmptyQueueRaises ==
    Constructed =>
        /\ bcon.waiting /= <<>> => bcon.at = "left" /\ bcon.outcome = Raise("ValueError")
        /\ bcon.at /= "left" => bcon.waiting = <<>>
        /\ (bcon.at = "line50" /\ bcon.pc = "line124")
              => bcon.ev = "TIMEOUT" /\ bcon.outcome = NoValue

C21_Witness ==
    /\ Constructed
    /\ Len(bcon.waiting) = 2
    /\ bcon.outcome = Raise("ValueError")
    /\ Len(session.queue) = 1

\* C22: when control has left bopen and the session had been started by
\* con.start(), stop() was called once: after a with-block that finished,
\* after one that raised, and after a start() that failed.
C22_StartedIsStopped ==
    (bcon.method = "bopen" /\ bcon.at = "left" /\ StartCalled /\ bcon.started)
        => Cardinality(Stops) = 1

\* the part of C22 about the with-block
C22_StoppedAfterBlock ==
    (bcon.method = "bopen" /\ bcon.at = "left" /\ bcon.block /= NoValue)
        => Cardinality(Stops) = 1 /\ bcon.outcome = bcon.block

----------------------------------------------------------------------------
(* The request methods of a started BCon *)
(*                                                                         *)
(* A message is what message_to_dict gives: its correlation ids and its    *)
(* element, a dict <<"dict", record>> or a list <<"list", sequence>>. An   *)
(* event is its type and its messages. The session answers the requests    *)
(* it is sent, one or more PARTIAL_RESPONSE events and one RESPONSE event  *)
(* for each, and delivers events of other types when it likes.             *)

MaxResponses == 3    \* events the session delivers while a method waits

_RESPONSE_TYPES == {"RESPONSE", "PARTIAL_RESPONSE"}

Methods == {"bdh", "ref", "bulkref", "ref_hist", "bulkref_hist", "bdib", "bsrch"}

HistMethods == {"ref_hist", "bulkref_hist"}

PyDict(r) == <<"dict", r>>

PyList(s) == <<"list", s>>

\* key in d
In(key, d) == d[1] = "dict" /\ key \in DOMAIN d[2]

\* isinstance(v, list)
IsList(v) == v[1] = "list"

Num(n) == <<"num", n>>

Str(s) == <<"str", s>>

NaN == <<"nan">>

\* the dates of the requests of ref_hist and bulkref_hist, in date order
Dates == <<"20160104", "20160105">>

DateLists == {<<>>, <<Dates[1]>>, <<Dates[1], Dates[2]>>, <<Dates[2], Dates[1]>>}

FieldLists == {<<"F">>, <<"G", "F">>}

\* the correlation id of a request sent without one, and of the events left
\* by an earlier call
AutoId == "auto"

OldId == "old"

Message(cid, d) == [correlationIds |-> <<cid>>, element |-> d]

ResponseError == PyDict([responseError |-> "error"])

\* securityData of a HistoricalDataResponse or ReferenceDataResponse
SecurityData(ticker, fexc, fdata) ==
    [security |-> ticker, fieldExceptions |-> fexc, fieldData |-> fdata]

SecurityError(ticker) ==
    [security |-> ticker, securityError |-> "error", fieldExceptions |-> <<>>,
     fieldData |-> <<>>]

FieldException(fld, sub) == [fieldId |-> fld, subcategory |-> sub]

\* one element of fieldData of a HistoricalDataResponse: the items of a date
HistRow(date, value) == <<<<"date", Num(date)>>, <<"PX_LAST", Num(value)>>>>

HistoricalDataResponses ==
    {ResponseError,
     PyDict([securityData |-> SecurityData("T", <<>>, <<HistRow(1, 10)>>)]),
     PyDict([securityData |-> SecurityData("T", <<>>, <<HistRow(2, 20), HistRow(3, 30)>>)]),
     PyDict([securityData |-> SecurityError("X")]),
     PyDict([securityData |->
                SecurityData("T", <<FieldException("PX_LAST", "INVALID_FIELD")>>, <<>>)])}

\* fieldData of a ReferenceDataResponse: field name -> value
NoFields == [f \in {} |-> NaN]

OneField(v) == [f \in {"F"} |-> v]

\* a bulk value: one dict per position, field name -> items
BulkValue ==
    PyList(<<[f \in {"F"} |-> <<<<Str("name"), Num(1)>>, <<Str("weight"), Num(2)>>>>],
             [f \in {"F"} |-> <<<<Str("name"), Num(3)>>>>]>>)

ReferenceDataResponses ==
    {ResponseError,
     PyList(<<>>),
     PyList(<<SecurityData("T", <<>>, OneField(Num(1)))>>),
     PyList(<<SecurityData("T", <<>>, NoFields)>>),
     PyList(<<SecurityData("T", <<>>, OneField(Num(1))),
              SecurityData("U", <<>>, [f \in {"F", "G"} |-> Num(2)])>>),
     PyList(<<SecurityError("X")>>),
     PyList(<<SecurityData("T", <<FieldException("G", "INVALID_FIELD")>>, OneField(Num(1)))>>),
     PyList(<<SecurityData("T", <<FieldException("G", "NOT_APPLICABLE_TO_REF_DATA")>>,
                           OneField(Num(1)))>>),
     PyList(<<SecurityData("T", <<>>, OneField(BulkValue))>>)}

\* one bar of an IntradayBarResponse
Bar(t) ==
    [time |-> t, open |-> 1, high |-> 1, low |-> 1, close |-> 1, volume |-> t,
     numEvents |-> 1]

IntradayBarResponses ==
    {ResponseError,
     PyDict([barData |-> [barTickData |-> <<>>]]),
     PyDict([barData |-> [barTickData |-> <<Bar(1)>>]]),
     PyDict([barData |-> [barTickData |-> <<Bar(3), Bar(2)>>]])}

\* the DataRecords of a GridResponse, each with its DataFields
GridResponses ==
    {PyList(<<>>),
     PyList(<<<<"x">>>>),
     PyList(<<<<"y", "z">>, <<"w">>>>)}

\* the elements the session can answer a method with
Responses(method) ==
    CASE method = "bdh" -> HistoricalDataResponses
      [] method \in {"ref", "bulkref"} -> ReferenceDataResponses
      [] method = "ref_hist" ->
            {ResponseError,
             PyList(<<SecurityData("T", <<>>, OneField(Num(1)))>>),
             PyList(<<SecurityData("U", <<>>, NoFields)>>)}
      [] method = "bulkref_hist" ->
            {ResponseError,
             PyList(<<SecurityData("T", <<>>, OneField(BulkValue))>>),
             PyList(<<SecurityData("U", <<>>, NoFields)>>)}
      [] method = "bdib" -> IntradayBarResponses
      [] method = "bsrch" -> GridResponses

\* an element with data in it
Typical(method) ==
    CASE method = "bdh" ->
            PyDict([securityData |-> SecurityData("T", <<>>, <<HistRow(1, 10)>>)])
      [] method \in {"ref", "ref_hist"} ->
            PyList(<<SecurityData("T", <<>>, OneField(Num(1)))>>)
      [] method \in {"bulkref", "bulkref_hist"} ->
            PyList(<<SecurityData("T", <<>>, OneField(BulkValue))>>)
      [] method = "bdib" -> PyDict([barData |-> [barTickData |-> <<Bar(1)>>]])
      [] method = "bsrch" -> PyList(<<<<"x">>>>)

\* the messages of one event: one message, or two
MessageLists(method, cid) ==
    {<<Message(cid, d)>> : d \in Responses(method)}
    \cup (IF method \in HistMethods THEN {}
          ELSE {<<Message(cid, Typical(method)), Message(cid, d)>> :
                   d \in {ResponseError, Typical(method)}})

Event(type, msgs) == [type |-> type, msgs |-> msgs]

\* the events that are not answers to a request
Unsolicited == {Event(t, <<>>) : t \in {"SESSION_STATUS", "ADMIN"}}

\* what an earlier call that errored out may have left in the queue
Leftovers(method) ==
    {<<>>, <<Event("RESPONSE", <<Message(OldId, Typical(method))>>)>>}


(* The bodies of the loops over the messages: what a body raises, or the   *)
(* rows it appends to data                                                 *)

Rows(rows) == <<"rows", rows>>

\* one step of a loop and then the rest of it: the rest is not reached when
\* the step raises
Then(step, rest) ==
    IF step[1] = "raise" THEN step
    ELSE IF rest[1] = "raise" THEN rest
    ELSE Rows(step[2] \o rest[2])

\* lines 318-323: the items of one element of fieldData, 'date' left out
RECURSIVE FieldDataRows(_, _, _, _)
FieldDataRows(ticker, date, items, j) ==
    IF j > Len(items) THEN <<>>
    ELSE (IF items[j][1] = "date" THEN <<>>
          ELSE <<<<date, ticker, items[j][1], items[j][2]>>>>)
         \o FieldDataRows(ticker, date, items, j + 1)

\* fd['fieldData']['date']
DateOf(items) == items[CHOOSE j \in 1..Len(items) : items[j][1] = "date"][2]

\* lines 317-323: the loop over fldDatas
RECURSIVE HistoricalRows(_, _, _)
HistoricalRows(ticker, fldDatas, i) ==
    IF i > Len(fldDatas) THEN <<>>
    ELSE FieldDataRows(ticker, DateOf(fldDatas[i]), fldDatas[i], 1)
         \o HistoricalRows(ticker, fldDatas, i + 1)

has_field_exception_off(d) == FALSE

has_field_exception(d) == Len(d[2].securityData.fieldExceptions) > 0

\* _bdh_list, lines 306-323: the body of the loop over the messages
_bdh_list(msg) ==
    IF In("responseError", msg.element) THEN Raise("ValueError")
    ELSE IF \/ "securityError" \in DOMAIN msg.element[2].securityData
            \/ has_field_exception(msg.element)
    THEN Raise("ValueError")
    ELSE Rows(HistoricalRows(msg.element[2].securityData.security,
                             msg.element[2].securityData.fieldData, 1))

\* lines 377-380 and 483-486
corrId_sent(msg, keep_corrId) == IF keep_corrId THEN <<bcon.dates[1]>> ELSE <<>>

corrId(msg, keep_corrId) == IF keep_corrId THEN msg.correlationIds ELSE <<>>

\* _check_fieldExceptions: whether it raises
_check_fieldExceptions(field_exceptions) ==
    \E i \in 1..Len(field_exceptions) : field_exceptions[i].subcategory = "INVALID_FIELD"

\* lines 405-413: the row of a field
RefDatum_present(ticker, fld, fieldData, cids) ==
    IF fld \notin DOMAIN fieldData THEN <<>>
    ELSE <<(<<ticker, fld, fieldData[fld]>> \o cids)>>

RefDatum(ticker, fld, fieldData, cids) ==
    IF fld \notin DOMAIN fieldData THEN <<(<<ticker, fld, NaN>> \o cids)>>
    ELSE <<(<<ticker, fld, fieldData[fld]>> \o cids)>>

\* lines 393-413: the loop over flds for one security
RECURSIVE RefFields(_, _, _, _, _)
RefFields(ticker, flds, j, fieldData, cids) ==
    IF j > Len(flds) THEN Rows(<<>>)
    ELSE Then(IF flds[j] \in DOMAIN fieldData /\ IsList(fieldData[flds[j]])
              THEN Raise("ValueError")
              ELSE Rows(RefDatum(ticker, flds[j], fieldData, cids)),
              RefFields(ticker, flds, j + 1, fieldData, cids))

\* lines 387-413: one security of the response
RefSecurity(secData, flds, cids) ==
    IF "securityError" \in DOMAIN secData THEN Raise("ValueError")
    ELSE IF _check_fieldExceptions(secData.fieldExceptions) THEN Raise("ValueError")
    ELSE RefFields(secData.security, flds, 1, secData.fieldData, cids)

\* line 386: the loop over the securities
RECURSIVE RefSecurities(_, _, _, _)
RefSecurities(secs, i, flds, cids) ==
    IF i > Len(secs) THEN Rows(<<>>)
    ELSE Then(RefSecurity(secs[i], flds, cids), RefSecurities(secs, i + 1, flds, cids))

\* _parse_ref, lines 377-413: the body of the loop over the messages
_parse_ref(msg, flds, keep_corrId) ==
    IF In("responseError", msg.element) THEN Raise("ValueError")
    ELSE RefSecurities(msg.element[2], 1, flds, corrId(msg, keep_corrId))

\* lines 506-509: the items of the dict at position i
RECURSIVE BulkItems(_, _, _, _, _, _)
BulkItems(ticker, fld, items, k, i, cids) ==
    IF k > Len(items) THEN <<>>
    ELSE <<(<<ticker, fld, items[k][1], items[k][2], Num(i)>> \o cids)>>
         \o BulkItems(ticker, fld, items, k + 1, i, cids)

\* line 505: enumerate(fieldData[fld]), positions from 0
RECURSIVE BulkPositions(_, _, _, _, _)
BulkPositions(ticker, fld, dicts, p, cids) ==
    IF p > Len(dicts) THEN <<>>
    ELSE BulkItems(ticker, fld, dicts[p][fld], 1, p - 1, cids)
         \o BulkPositions(ticker, fld, dicts, p + 1, cids)

\* lines 501-513: one field of one security
BulkDatum(ticker, fld, fieldData, cids) ==
    IF fld \in DOMAIN fieldData /\ ~IsList(fieldData[fld]) THEN Raise("ValueError")
    ELSE IF fld \in DOMAIN fieldData
    THEN Rows(BulkPositions(ticker, fld, fieldData[fld][2], 1, cids))
    ELSE Rows(<<(<<ticker, fld, NaN, NaN, NaN>> \o cids)>>)

RECURSIVE BulkFields(_, _, _, _, _)
BulkFields(ticker, flds, j, fieldData, cids) ==
    IF j > Len(flds) THEN Rows(<<>>)
    ELSE Then(BulkDatum(ticker, flds[j], fieldData, cids),
              BulkFields(ticker, flds, j + 1, fieldData, cids))

BulkSecurity(secData, flds, cids) ==
    IF "securityError" \in DOMAIN secData THEN Raise("ValueError")
    ELSE IF _check_fieldExceptions(secData.fieldExceptions) THEN Raise("ValueError")
    ELSE BulkFields(secData.security, flds, 1, secData.fieldData, cids)

RECURSIVE BulkSecurities(_, _, _, _)
BulkSecurities(secs, i, flds, cids) ==
    IF i > Len(secs) THEN Rows(<<>>)
    ELSE Then(BulkSecurity(secs[i], flds, cids), BulkSecurities(secs, i + 1, flds, cids))

\* _parse_bulkref, lines 483-513: the body of the loop over the messages
_parse_bulkref(msg, flds, keep_corrId) ==
    IF In("responseError", msg.element) THEN Raise("ValueError")
    ELSE BulkSecurities(msg.element[2], 1, flds, corrId(msg, keep_corrId))

\* bdib, lines 690-692: d['barData'] of a response that has none is a KeyError
bdib_bars(msg) ==
    IF ~In("barData", msg.element) THEN Raise("KeyError")
    ELSE Rows(msg.element[2].barData.barTickData)

RECURSIVE Flatten(_, _)
Flatten(seqs, i) == IF i > Len(seqs) THEN <<>> ELSE seqs[i] \o Flatten(seqs, i + 1)

\* bsrch, lines 721-723: the StringValue of every field of every record;
\* getElement("DataRecords") of a message that has none raises
bsrch_values(msg) ==
    IF ~IsList(msg.element) THEN Raise("NotFoundException")
    ELSE Rows(Flatten(msg.element[2], 1))

\* the body of the loop of a method on one message
OnMessage(method, flds, msg) ==
    CASE method = "bdh" -> _bdh_list(msg)
      [] method = "ref" -> _parse_ref(msg, flds, FALSE)
      [] method = "ref_hist" -> _parse_ref(msg, flds, TRUE)
      [] method = "bulkref" -> _parse_bulkref(msg, flds, FALSE)
      [] method = "bulkref_hist" -> _parse_bulkref(msg, flds, TRUE)
      [] method = "bdib" -> bdib_bars(msg)
      [] method = "bsrch" -> bsrch_values(msg)

\* for msg in self._receive_events(): the loop over the messages of one event
RECURSIVE Consume(_, _, _, _)
Consume(method, flds, msgs, i) ==
    IF i > Len(msgs) THEN Rows(<<>>)
    ELSE Then(OnMessage(method, flds, msgs[i]), Consume(method, flds, msgs, i + 1))

\* the messages the generator yielded: up to the first whose body raises
Yielded(method, flds, msgs) ==
    IF \E i \in 1..Len(msgs) : OnMessage(method, flds, msgs[i])[1] = "raise"
    THEN SubSeq(msgs, 1, CHOOSE i \in 1..Len(msgs) :
                            /\ OnMessage(method, flds, msgs[i])[1] = "raise"
                            /\ \A j \in 1..(i - 1) :
                                  OnMessage(method, flds, msgs[j])[1] /= "raise")
    ELSE msgs

(* The DataFrame a method returns, as its rows *)

\* sort_values and sort_index: rows that compare equal keep their order
\* (the sort that numpy uses for so few rows is an insertion sort)
RECURSIVE InsertByKey(_, _)
InsertByKey(sorted, p) ==
    IF sorted = <<>> THEN <<p>>
    ELSE IF p[1] < Head(sorted)[1] THEN <<p>> \o sorted
    ELSE <<Head(sorted)>> \o InsertByKey(Tail(sorted), p)

RECURSIVE SortByKey(_, _)
SortByKey(pairs, n) ==
    IF n = 0 THEN <<>> ELSE InsertByKey(SortByKey(pairs, n - 1), pairs[n])

\* the rank of a date string among the strings that can be correlation ids
DateRank(d) ==
    IF \E i \in 1..Len(Dates) : Dates[i] = d
    THEN CHOOSE i \in 1..Len(Dates) : Dates[i] = d
    ELSE Len(Dates) + 1

\* positions in order, NaN last
PositionRank(p) == IF p = NaN THEN 99 ELSE p[2]

\* lines 567-570: columns [ticker, field, value, date], sorted by date, then
\* [date, ticker, field, value]
ref_hist_frame(data) ==
    [i \in 1..Len(data) |->
        LET r == SortByKey([k \in 1..Len(data) |-> <<DateRank(data[k][4]), data[k]>>],
                           Len(data))[i][2]
        IN  <<r[4], r[1], r[2], r[3]>>]

\* lines 615-619: sorted by date and position
bulkref_hist_frame(data) ==
    [i \in 1..Len(data) |->
        LET r == SortByKey([k \in 1..Len(data) |->
                               <<DateRank(data[k][6]) * 100 + PositionRank(data[k][5]),
                                 data[k]>>],
                           Len(data))[i][2]
        IN  <<r[6], r[1], r[2], r[3], r[4], r[5]>>]

\* line 693: set_index('time').sort_index()
bdib_frame(data) ==
    [i \in 1..Len(data) |->
        SortByKey([k \in 1..Len(data) |-> <<data[k].time, data[k]>>], Len(data))[i][2]]

\* what the method returns or raises once the responses are in: naming the
\* columns of a frame without rows raises ValueError, set_index('time') on
\* one KeyError
Frame(method, data) ==
    CASE method \in {"bdh", "bsrch"} -> <<"return", data>>
      [] method \in {"ref", "bulkref"} ->
            IF data = <<>> THEN Raise("ValueError") ELSE <<"return", data>>
      [] method = "ref_hist" ->
            IF data = <<>> THEN Raise("ValueError") ELSE <<"return", ref_hist_frame(data)>>
      [] method = "bulkref_hist" ->
            IF data = <<>> THEN Raise("ValueError")
            ELSE <<"return", bulkref_hist_frame(data)>>
      [] method = "bdib" ->
            IF data = <<>> THEN Raise("KeyError") ELSE <<"return", bdib_frame(data)>>


(* The steps of a request method *)

InitRequest ==
    /\ tree = <<>> /\ layout = "lines" /\ damage = NoDamage /\ mystr = <<>>
    /\ pc = "bcon" /\ ret = NoValue
    /\ NoCalls
    /\ \E m \in Methods :
       \E q \in Leftovers(m) :
       \E f \in (IF m \in {"ref", "ref_hist", "bulkref", "bulkref_hist"} THEN FieldLists
                 ELSE {<<"PX_LAST">>}) :
       \E ds \in (IF m \in HistMethods THEN DateLists ELSE {<<>>}) :
          /\ session = [state |-> "started", queue |-> q, delivered |-> 0, log |-> <<>>,
                        pending |-> {}]
          /\ bcon = [method |-> m, pc |-> "create", flds |-> f, dates |-> ds,
                     waiting |-> q, sent_events |-> 0, data |-> <<>>, read |-> <<>>,
                     yielded |-> <<>>, outcome |-> NoValue]

\* while(self._session.tryNextEvent()): pass
Flush(queue) == <<>>

\* _create_req (called by bdh, ref, bulkref and _send_hist) and bdib empty
\* the queue before they create the request; bsrch creates it at once
CreateRequest ==
    /\ bcon.pc = "create"
    /\ session' = [session EXCEPT !.queue = IF bcon.method = "bsrch" THEN @ ELSE Flush(@)]
    /\ bcon' = [bcon EXCEPT !.pc = "send"]
    /\ UNCHANGED <<parserVars, callVars>>

\* lines 629-630
CheckDates_off(dates) == NoValue

CheckDates(dates) == IF Len(dates) = 0 THEN Raise("ValueError") ELSE NoValue

\* sendRequest: _send_hist sends one request for each date, with the date as
\* its correlation id; the other methods send one request
SendRequest ==
    /\ bcon.pc = "send"
    /\ IF bcon.method \in HistMethods
       THEN IF CheckDates(bcon.dates) /= NoValue
            THEN /\ bcon' = [bcon EXCEPT !.outcome = CheckDates(bcon.dates), !.pc = "done"]
                 /\ UNCHANGED session
            ELSE /\ session' = [session EXCEPT
                                  !.log = @ \o [i \in 1..Len(bcon.dates) |->
                                                   <<"sendRequest", bcon.dates[i]>>],
                                  !.pending = {bcon.dates[i] : i \in 1..Len(bcon.dates)}]
                 /\ bcon' = [bcon EXCEPT !.sent_events = Len(bcon.dates), !.pc = "line212"]
       ELSE /\ session' = [session EXCEPT !.log = Append(@, <<"sendRequest", AutoId>>),
                                          !.pending = {AutoId}]
            /\ bcon' = [bcon EXCEPT !.sent_events = 1, !.pc = "line212"]
    /\ UNCHANGED <<parserVars, callVars>>

\* the session puts an event in its queue while the method waits: an answer
\* to a request that has not had its RESPONSE event, or an event of its own
Respond ==
    /\ bcon.pc = "line212"
    /\ session.queue = <<>>
    /\ session.delivered < MaxResponses
    /\ \E ev \in Unsolicited
                 \cup {Event(t, ms) : t \in _RESPONSE_TYPES,
                                      ms \in UNION {MessageLists(bcon.method, c) :
                                                       c \in session.pending}} :
          session' = [session EXCEPT
                        !.queue = <<ev>>,
                        !.delivered = @ + 1,
                        !.pending = IF ev.type = "RESPONSE"
                                    THEN @ \ {ev.msgs[1].correlationIds[1]} ELSE @]
    /\ UNCHANGED <<bcon, parserVars, callVars>>

\* self._session.nextEvent(self.timeout): the event, and the queue it leaves
nextEvent(q) == IF q = <<>> THEN <<Event("TIMEOUT", <<>>), q>> ELSE <<Head(q), Tail(q)>>

Timeout == "RuntimeError: Timeout, increase BCon.timeout attribute"

UnexpectedEventType == "RuntimeError: Unexpected Event Type"

\* lines 224-227: the RESPONSE event that ends the loop
LastResponse_any(ev, sent_events) == ev.type = "RESPONSE"

LastResponse(ev, sent_events) == ev.type = "RESPONSE" /\ sent_events - 1 = 0

\* one turn of the loop of _receive_events on the event ev, with the loop of
\* the method over the messages it yields; r is what that loop gives
Received(ev, r) ==
    IF ev.type \notin _EVENT_DICT
    THEN [bcon EXCEPT !.read = Append(@, ev), !.outcome = Raise("KeyError"), !.pc = "done"]
    ELSE IF ev.type \in _RESPONSE_TYPES
    THEN IF r[1] = "raise"
         THEN [bcon EXCEPT !.read = Append(@, ev),
                           !.yielded = @ \o Yielded(bcon.method, bcon.flds, ev.msgs),
                           !.outcome = r,
                           !.pc = "done"]
         ELSE [bcon EXCEPT !.read = Append(@, ev),
                           !.yielded = @ \o ev.msgs,
                           !.data = @ \o r[2],
                           !.sent_events = IF ev.type = "RESPONSE" THEN @ - 1 ELSE @,
                           !.pc = IF LastResponse(ev, bcon.sent_events) THEN "frame"
                                  ELSE "line212"]
    ELSE [bcon EXCEPT !.read = Append(@, ev),
                      !.outcome = IF ev.type = "TIMEOUT" THEN Raise(Timeout)
                                  ELSE Raise(UnexpectedEventType),
                      !.pc = "done"]

ReceiveEvent ==
    /\ bcon.pc = "line212"
    /\ session' = [session EXCEPT !.queue = nextEvent(@)[2]]
    /\ bcon' = Received(nextEvent(session.queue)[1],
                        Consume(bcon.method, bcon.flds, nextEvent(session.queue)[1].msgs, 1))
    /\ UNCHANGED <<parserVars, callVars>>

\* the loop is over: the method makes its DataFrame and returns it
ReturnFrame ==
    /\ bcon.pc = "frame"
    /\ bcon' = [bcon EXCEPT !.outcome = Frame(bcon.method, bcon.data), !.pc = "done"]
    /\ UNCHANGED <<session, parserVars, callVars>>

NextRequest ==
    \/ CreateRequest
    \/ SendRequest
    \/ Respond
    \/ ReceiveEvent
    \/ ReturnFrame

SpecRequest == InitRequest /\ [][NextRequest]_vars

(* The claims about the request methods *)

\* a method has been called and is past its request
Waited == bcon.pc \in {"line212", "frame", "done"}

MethodReturned == bcon.pc = "done" /\ bcon.outcome[1] = "return"

\* a message that carries responseError, securityError or fieldExceptions
CarriesError(msg) ==
    \/ In("responseError", msg.element)
    \/ /\ In("securityData", msg.element)
       /\ \/ "securityError" \in DOMAIN msg.element[2].securityData
          \/ msg.element[2].securityData.fieldExceptions /= <<>>

\* C23: bdh raises ValueError at the first message that carries a
\* responseError, a securityError or a fieldExceptions list that is not
\* empty: that message is the last one it takes, and nothing is returned.
C23_BdhRaisesOnError ==
    bcon.method = "bdh" =>
        \A i \in 1..Len(bcon.yielded) :
            CarriesError(bcon.yielded[i]) =>
                /\ i = Len(bcon.yielded)
                /\ bcon.pc = "done"
                /\ bcon.outcome = Raise("ValueError")

C23_Witness ==
    /\ bcon.method = "bdh"
    /\ Len(bcon.yielded) = 2
    /\ ~CarriesError(bcon.yielded[1])
    /\ bcon.data /= <<>>
    /\ ~In("responseError", bcon.yielded[2].element)
    /\ bcon.yielded[2].element[2].securityData.fieldExceptions /= <<>>
    /\ bcon.outcome = Raise("ValueError")

\* the securities of the messages, in order
RECURSIVE SecuritiesOf(_, _)
SecuritiesOf(msgs, i) ==
    IF i > Len(msgs) THEN <<>>
    ELSE (IF IsList(msgs[i].element) THEN msgs[i].element[2] ELSE <<>>)
         \o SecuritiesOf(msgs, i + 1)

\* C24: what ref returns has exactly one row [ticker, field, value] for
\* every security of the response and every requested field, in the order
\* of the response and then of the fields; the value is NaN exactly when
\* the field is not in the fieldData of the security.
C24_RefRows ==
    (bcon.method = "ref" /\ MethodReturned) =>
        /\ Len(bcon.outcome[2])
              = Len(SecuritiesOf(bcon.yielded, 1)) * Len(bcon.flds)
        /\ \A s \in 1..Len(SecuritiesOf(bcon.yielded, 1)) :
           \A j \in 1..Len(bcon.flds) :
              /\ Len(bcon.outcome[2][(s - 1) * Len(bcon.flds) + j]) = 3
              /\ bcon.outcome[2][(s - 1) * Len(bcon.flds) + j][1]
                    = SecuritiesOf(bcon.yielded, 1)[s].security
              /\ bcon.outcome[2][(s - 1) * Len(bcon.flds) + j][2] = bcon.flds[j]
              /\ IF bcon.flds[j] \in DOMAIN SecuritiesOf(bcon.yielded, 1)[s].fieldData
                 THEN bcon.outcome[2][(s - 1) * Len(bcon.flds) + j][3]
                         = SecuritiesOf(bcon.yielded, 1)[s].fieldData[bcon.flds[j]]
                      /\ bcon.outcome[2][(s - 1) * Len(bcon.flds) + j][3] /= NaN
                 ELSE bcon.outcome[2][(s - 1) * Len(bcon.flds) + j][3] = NaN

C24_Witness ==
    /\ bcon.method = "ref" /\ MethodReturned
    /\ Len(bcon.flds) = 2
    /\ Len(bcon.yielded) >= 2
    /\ Len(bcon.outcome[2]) = 6
    /\ bcon.outcome[2][1][3] = NaN
    /\ bcon.outcome[2][2][3] /= NaN

\* sent_events as _receive_events was called with
SentEvents == IF bcon.method \in HistMethods THEN Len(bcon.dates) ELSE 1

Responses_read == {i \in 1..Len(bcon.read) : bcon.read[i].type = "RESPONSE"}

\* the messages of the RESPONSE and PARTIAL_RESPONSE events, in order
RECURSIVE MessagesOf(_, _)
MessagesOf(events, i) ==
    IF i > Len(events) THEN <<>>
    ELSE (IF events[i].type \in _RESPONSE_TYPES THEN events[i].msgs ELSE <<>>)
         \o MessagesOf(events, i + 1)

\* C26: _receive_events(sent_events = n), n >= 1, reads no event after the
\* n-th RESPONSE event, and when its loop ends it has read n of them and
\* has yielded every message of every RESPONSE and PARTIAL_RESPONSE event it
\* read, in the order read.
C26_StopsAfterLastResponse ==
    (Waited /\ SentEvents >= 1) =>
        /\ Cardinality(Responses_read) <= SentEvents
        /\ Cardinality(Responses_read) = SentEvents
              => bcon.read[Len(bcon.read)].type = "RESPONSE" /\ bcon.pc /= "line212"
        /\ bcon.pc = "frame"
              => /\ Cardinality(Responses_read) = SentEvents
                 /\ bcon.yielded = MessagesOf(bcon.read, 1)

C26_Witness ==
    /\ bcon.pc = "frame"
    /\ SentEvents = 2
    /\ Len(bcon.read) = 3
    /\ bcon.read[2].type = "PARTIAL_RESPONSE"
    /\ Len(bcon.yielded) = 3

\* C27: when a method reads an event that is neither RESPONSE nor
\* PARTIAL_RESPONSE it raises RuntimeError, 'Timeout' for a TIMEOUT event
\* and 'Unexpected Event Type' for any other, and returns nothing.
C27_UnexpectedEventRaises ==
    (Waited /\ bcon.read /= <<>> /\ bcon.read[Len(bcon.read)].type \notin _RESPONSE_TYPES)
        => /\ bcon.pc = "done"
           /\ bcon.outcome = IF bcon.read[Len(bcon.read)].type = "TIMEOUT"
                             THEN Raise(Timeout) ELSE Raise(UnexpectedEventType)

\* the same for the event types that _EVENT_DICT names
C27_NamedEventRaises ==
    (/\ Waited /\ bcon.read /= <<>>
     /\ bcon.read[Len(bcon.read)].type \in _EVENT_DICT \ _RESPONSE_TYPES)
        => /\ bcon.pc = "done"
           /\ bcon.outcome = IF bcon.read[Len(bcon.read)].type = "TIMEOUT"
                             THEN Raise(Timeout) ELSE Raise(UnexpectedEventType)

\* the requests sent, in order
Sent == SelectSeq(session.log, LAMBDA e : e[1] = "sendRequest")

\* the rows that the messages with correlation id c give, without the id
RECURSIVE RowsFor(_, _, _)
RowsFor(c, msgs, i) ==
    IF i > Len(msgs) THEN {}
    ELSE (IF msgs[i].correlationIds = <<c>>
          THEN {OnMessage(IF bcon.method = "ref_hist" THEN "ref" ELSE "bulkref",
                          bcon.flds, msgs[i])[2][k] :
                   k \in 1..Len(OnMessage(IF bcon.method = "ref_hist" THEN "ref" ELSE "bulkref",
                                          bcon.flds, msgs[i])[2])}
          ELSE {})
         \cup RowsFor(c, msgs, i + 1)

\* C28: ref_hist and bulkref_hist send one request for each date, with the
\* date as correlation id, wait for as many RESPONSE events as there are
\* dates, and every row of the result has the date that is the correlation
\* id of the message the row comes from, in whatever order the events of
\* the dates arrive.
C28_RowsCarryRequestDate ==
    (bcon.method \in HistMethods /\ Waited /\ bcon.dates /= <<>>) =>
        /\ Sent = [i \in 1..Len(bcon.dates) |-> <<"sendRequest", bcon.dates[i]>>]
        /\ bcon.pc = "frame" => Cardinality(Responses_read) = Len(bcon.dates)
        /\ MethodReturned =>
              \A c \in {Dates[i] : i \in 1..Len(Dates)} :
                 {Tail(bcon.outcome[2][k]) :
                     k \in {n \in 1..Len(bcon.outcome[2]) : bcon.outcome[2][n][1] = c}}
                    = RowsFor(c, bcon.yielded, 1)

C28_Witness ==
    /\ bcon.method = "ref_hist" /\ MethodReturned
    /\ Len(bcon.dates) = 2
    /\ bcon.read[1].type = "RESPONSE"
    /\ bcon.read[1].msgs[1].correlationIds = <<bcon.dates[2]>>
    /\ Len(bcon.read) = 3
    /\ Len(bcon.outcome[2]) >= 3
    /\ bcon.outcome[2][1][1] /= bcon.outcome[2][Len(bcon.outcome[2])][1]

\* C29: what a request method returns holds nothing of a message that was
\* in the queue of the session when the method was called.
C29_NoDataFromWaitingEvents ==
    MethodReturned =>
        \A i \in 1..Len(bcon.yielded) : bcon.yielded[i].correlationIds /= <<OldId>>

\* the same for the methods other than bsrch
C29_FlushedBeforeRequest ==
    (MethodReturned /\ bcon.method /= "bsrch") =>
        \A i \in 1..Len(bcon.yielded) : bcon.yielded[i].correlationIds /= <<OldId>>

\* C30: ref_hist and bulkref_hist called with no dates raise ValueError;
\* they send no request and read no event.
C30_EmptyDatesRaise ==
    (bcon.method \in HistMethods /\ bcon.dates = <<>>) =>
        /\ Sent = <<>>
        /\ bcon.read = <<>>
        /\ bcon.pc \in {"create", "send", "done"}
        /\ bcon.pc = "done" => bcon.outcome = Raise("ValueError")

C30_Witness ==
    /\ bcon.method = "bulkref_hist" /\ bcon.dates = <<>>
    /\ bcon.waiting /= <<>>
    /\ bcon.pc = "done"
    /\ bcon.outcome = Raise("ValueError")
    /\ Sent = <<>>

====
